---- MODULE Spec2Model ----
(***************************************************************************)
(* Model of the Discord message pipeline of Antigravity-Manager:           *)
(* modules/discord/events.rs (event_handler) over the Conversation Store   *)
(* of modules/discord/db.rs.                                               *)
(*                                                                         *)
(* Text is modelled as a sequence of one-character strings, positions are  *)
(* 1-based, and a range <<s, e>> is the half-open span s .. e-1.           *)
(***************************************************************************)
EXTENDS Integers, Sequences, FiniteSets, TLC

\* ------------------------------------------------------------------------
\* Bounds of the model
\* ------------------------------------------------------------------------
\* number of parts a completion is assembled from (directive executor runs)
MaxParts == 3
\* the settings interactions of a behaviour
MaxToggles == 2
\* the most turns other handlers append between a save and the history read
MaxOthers == 1
\* the most iterations of the chunk loop of a behaviour
MaxChunks == 3
\* the calls of the desktop commands
MaxCalls == 3

\* ------------------------------------------------------------------------
\* Characters and text helpers
\* ------------------------------------------------------------------------
None == <<"none">>

UpperChars == <<"A","B","C","D","E","F","G","H","I","J","K","L","M",
                "N","O","P","Q","R","S","T","U","V","W","X","Y","Z">>
LowerChars == <<"a","b","c","d","e","f","g","h","i","j","k","l","m",
                "n","o","p","q","r","s","t","u","v","w","x","y","z">>

Digits == {"0","1","2","3","4","5","6","7","8","9"}

IsSpace(c) == c \in {" ", "\n", "\t"}
IsDigit(c) == c \in Digits

\* char::to_ascii_lowercase / the ASCII part of str::to_lowercase
LowerChar(c) ==
    IF \E i \in 1..26 : UpperChars[i] = c
    THEN LowerChars[CHOOSE i \in 1..26 : UpperChars[i] = c]
    ELSE c

to_lowercase(t) == [i \in 1..Len(t) |-> LowerChar(t[i])]

\* str::eq_ignore_ascii_case
eq_ignore_ascii_case(a, b) == to_lowercase(a) = to_lowercase(b)

\* the literal lit occurs in t at position p
StartsWithAt(t, p, lit) ==
    /\ p >= 1
    /\ p + Len(lit) - 1 <= Len(t)
    /\ \A i \in 1..Len(lit) : t[p + i - 1] = lit[i]

\* str::contains
contains(t, lit) == \E p \in 1..(Len(t) + 1) : StartsWithAt(t, p, lit)

\* first position q >= p at which t[q] is not white space (Len(t)+1 at the end)
SkipSpaces(t, p) ==
    CHOOSE q \in p..(Len(t) + 1) :
        /\ \A i \in p..(q - 1) : IsSpace(t[i])
        /\ (q = Len(t) + 1 \/ ~IsSpace(t[q]))

\* first position q >= p at which t[q] is not a digit
SkipDigits(t, p) ==
    CHOOSE q \in p..(Len(t) + 1) :
        /\ \A i \in p..(q - 1) : IsDigit(t[i])
        /\ (q = Len(t) + 1 \/ ~IsDigit(t[q]))

\* t[s .. e-1]
Slice(t, s, e) == SubSeq(t, s, e - 1)

\* str::trim
trim(t) ==
    IF \A i \in 1..Len(t) : IsSpace(t[i]) THEN <<>>
    ELSE LET s == CHOOSE i \in 1..Len(t) :
                      ~IsSpace(t[i]) /\ \A j \in 1..(i - 1) : IsSpace(t[j])
             e == CHOOSE i \in 1..Len(t) :
                      ~IsSpace(t[i]) /\ \A j \in (i + 1)..Len(t) : IsSpace(t[j])
         IN  SubSeq(t, s, e)

\* str::trim_start_matches('#')
trim_start_hash(t) ==
    LET q == CHOOSE q \in 1..(Len(t) + 1) :
                 /\ \A i \in 1..(q - 1) : t[i] = "#"
                 /\ (q = Len(t) + 1 \/ t[q] # "#")
    IN  Slice(t, q, Len(t) + 1)

RECURSIVE Flatten(_)
Flatten(ss) == IF ss = <<>> THEN <<>> ELSE Head(ss) \o Flatten(Tail(ss))

\* slice::join
RECURSIVE join(_, _)
join(ss, sep) ==
    IF ss = <<>> THEN <<>>
    ELSE IF Len(ss) = 1 THEN ss[1]
    ELSE ss[1] \o sep \o join(Tail(ss), sep)

\* ------------------------------------------------------------------------
\* u64 parsing: str::parse::<u64> on a string of ASCII digits.  The value is
\* kept as its canonical decimal digits (no leading zero), so that the
\* 64-bit range check is exact: the parse fails above 18446744073709551615.
\* ------------------------------------------------------------------------
U64MaxDigits == <<"1","8","4","4","6","7","4","4","0","7",
                  "3","7","0","9","5","5","1","6","1","5">>

DigitVal(c) == CHOOSE n \in 0..9 : <<"0","1","2","3","4","5","6","7","8","9">>[n + 1] = c

StripZeros(d) ==
    LET q == CHOOSE q \in 1..(Len(d) + 1) :
                 /\ \A i \in 1..(q - 1) : d[i] = "0"
                 /\ (q = Len(d) + 1 \/ d[q] # "0")
    IN  IF q = Len(d) + 1 THEN <<"0">> ELSE Slice(d, q, Len(d) + 1)

\* a <= b for canonical digit strings of the same length
DigitsLeq(a, b) ==
    \/ a = b
    \/ \E i \in 1..Len(a) :
          /\ \A j \in 1..(i - 1) : a[j] = b[j]
          /\ DigitVal(a[i]) < DigitVal(b[i])

parse_u64(d) ==
    IF d = <<>> \/ \E i \in 1..Len(d) : ~IsDigit(d[i]) THEN None
    ELSE LET c == StripZeros(d)
         IN  IF Len(c) < Len(U64MaxDigits) THEN c
             ELSE IF Len(c) = Len(U64MaxDigits) /\ DigitsLeq(c, U64MaxDigits) THEN c
             ELSE None

\* ------------------------------------------------------------------------
\* Regular expressions of the handler
\* ------------------------------------------------------------------------
\* smallest position q >= p at which lit occurs in t, 0 when there is none
FirstAt(t, p, lit) ==
    IF \E q \in p..Len(t) : StartsWithAt(t, q, lit)
    THEN CHOOSE q \in p..Len(t) :
             /\ StartsWithAt(t, q, lit)
             /\ \A r \in p..(q - 1) : ~StartsWithAt(t, r, lit)
    ELSE 0

SendOpen == <<"[","[","S","E","N","D",":">>
SendClose == <<"]","]">>
Colon == <<":">>

\* cmd_re = (?s)\[\[SEND:\s*(.+?)\s*:\s*(.*?)\]\]  anchored at position p.
\* The first \s* is greedy and gives white space back only when nothing else
\* matches; the lazy target ends before the white space that precedes the
\* first colon after its first character; the lazy body ends at the first
\* "]]".  The result is <<>> when there is no match at p, and otherwise the
\* one tuple pushed on `commands`: (target trimmed, body, range of the match).
cmd_re_at(t, p) ==
    IF ~StartsWithAt(t, p, SendOpen) THEN <<>>
    ELSE
      LET a    == p + Len(SendOpen)
          tmax == SkipSpaces(t, a)
          ColonOf(t0) == FirstAt(t, t0 + 1, Colon)
          Ok(t0) == /\ t0 <= Len(t)
                    /\ ColonOf(t0) # 0
                    /\ FirstAt(t, ColonOf(t0) + 1, SendClose) # 0
          cands == {t0 \in a..tmax : Ok(t0)}
      IN  IF cands = {} THEN <<>>
          ELSE
            LET t0 == CHOOSE x \in cands : \A y \in cands : y <= x
                c  == ColonOf(t0)
                e  == CHOOSE x \in (t0 + 1)..c :
                          /\ \A i \in x..(c - 1) : IsSpace(t[i])
                          /\ \A y \in (t0 + 1)..(x - 1) :
                                 \E i \in y..(c - 1) : ~IsSpace(t[i])
                b  == SkipSpaces(t, c + 1)
                cl == FirstAt(t, b, SendClose)
            IN  << [target |-> trim(Slice(t, t0, e)),
                    msg    |-> Slice(t, b, cl),
                    range  |-> <<p, cl + Len(SendClose)>>] >>

\* cmd_re.captures_iter(&content): all non-overlapping matches, leftmost first
RECURSIVE captures_from(_, _)
captures_from(t, p) ==
    LET q == FirstAt(t, p, SendOpen)
    IN  IF q = 0 THEN <<>>
        ELSE LET m == cmd_re_at(t, q)
             IN  IF m = <<>> THEN captures_from(t, q + 1)
                 ELSE m \o captures_from(t, m[1].range[2])

extract_commands(t) == captures_from(t, 1)

\* id_re = ^<#(\d+)>$|^(\d+)$ : the digits of the first group that took part
id_re(target) ==
    LET n == Len(target)
    IN  IF /\ n >= 4
           /\ target[1] = "<" /\ target[2] = "#" /\ target[n] = ">"
           /\ \A i \in 3..(n - 1) : IsDigit(target[i])
        THEN Slice(target, 3, n)
        ELSE IF n >= 1 /\ \A i \in 1..n : IsDigit(target[i])
        THEN target
        ELSE None

\* player_re = (?i)(?:player\s*id|siapa\s*player|cek\s*player|player|
\*                   cek\s*akun|cek\s*id)\s*(\d+)
\* each alternative is a list of words separated by \s*
PlayerPhrases ==
    << <<<<"p","l","a","y","e","r">>, <<"i","d">>>>,
       <<<<"s","i","a","p","a">>, <<"p","l","a","y","e","r">>>>,
       <<<<"c","e","k">>, <<"p","l","a","y","e","r">>>>,
       <<<<"p","l","a","y","e","r">>>>,
       <<<<"c","e","k">>, <<"a","k","u","n">>>>,
       <<<<"c","e","k">>, <<"i","d">>>> >>

\* position after the words of a phrase matched at p (0: no match)
RECURSIVE PhraseEnd(_, _, _)
PhraseEnd(t, p, words) ==
    IF words = <<>> THEN p
    ELSE IF StartsWithAt(to_lowercase(t), p, Head(words))
         THEN LET q == p + Len(Head(words))
              IN  IF Tail(words) = <<>> THEN q
                  ELSE PhraseEnd(t, SkipSpaces(t, q), Tail(words))
         ELSE 0

\* the digits captured by alternative k at position p (None: no match)
PlayerAltAt(t, p, k) ==
    LET q == PhraseEnd(t, p, PlayerPhrases[k])
    IN  IF q = 0 THEN None
        ELSE LET d == SkipSpaces(t, q)
                 e == SkipDigits(t, d)
             IN  IF e > d THEN Slice(t, d, e) ELSE None

PlayerAt(t, p) ==
    IF \E k \in 1..Len(PlayerPhrases) : PlayerAltAt(t, p, k) # None
    THEN PlayerAltAt(t, p, CHOOSE k \in 1..Len(PlayerPhrases) :
                               /\ PlayerAltAt(t, p, k) # None
                               /\ \A j \in 1..(k - 1) : PlayerAltAt(t, p, j) = None)
    ELSE None

\* player_re.captures(&content).get(1): group 1 of the leftmost match
player_re(t) ==
    IF \E p \in 1..Len(t) : PlayerAt(t, p) # None
    THEN PlayerAt(t, CHOOSE p \in 1..Len(t) :
                         /\ PlayerAt(t, p) # None
                         /\ \A r \in 1..(p - 1) : PlayerAt(t, r) = None)
    ELSE None

\* channel_re = <#(\d+)> : the set of ids captured in the content
channel_re(t) ==
    { Slice(t, p + 2, SkipDigits(t, p + 2)) : p \in
        { q \in 1..Len(t) :
            /\ StartsWithAt(t, q, <<"<", "#">>)
            /\ SkipDigits(t, q + 2) > q + 2
            /\ StartsWithAt(t, SkipDigits(t, q + 2), <<">">>) } }

\* ------------------------------------------------------------------------
\* Inputs: events, attachments, completions, the guild
\* ------------------------------------------------------------------------
\* message contents delivered by the platform
ContentPlain == <<"h","i">>
ContentKeyword == <<"D","i","n">>
ContentPlayer == <<"p","l","a","y","e","r"," ","1","2">>
ContentPlayerBig == <<"c","e","k"," ","i","d"," ","1","8","4","4","6","7","4","4","0","7","3","7","0","9","5","5","1","6","1","6">>
ContentChannelZero == <<"<","#","0",">">>
Contents == {ContentPlain, ContentKeyword, ContentPlayer, ContentPlayerBig,
             ContentChannelZero}

\* attachment sizes around the two caps of the handler
TextCap == 204800
ImageCap == 5242880
AttText == [content_type |-> "text", listed_ext |-> FALSE, size |-> TextCap - 1]
AttImage == [content_type |-> "image", listed_ext |-> FALSE, size |-> ImageCap - 1]
AttachmentSamples == { <<>>, <<AttText>>, <<AttImage>> }
FileName == <<"f">>
FileText == <<"T">>

\* the events of the end-to-end pipeline
Events ==
    [is_self : BOOLEAN, mentions_me : BOOLEAN, content : Contents,
     has_guild : {TRUE}, attachments : {<<>>}, mentions : {<<>>}]

\* the author of the event: user name, and the nickname nick_in may return
AuthorId == "u1"
AuthorName == <<"b","o","b">>
AuthorNick == <<"B">>
BotId == "bot"
OtherUserId == "u2"

\* the guild and the channel of the event, and the guild's channel listing
GuildId == "g1"
ChannelIdOfEvent == "c1"
GuildChannels == { [id |-> <<"7">>, name |-> <<"g","e","n">>],
                   [id |-> <<"8">>, name |-> <<"o","p","s">>] }

\* directive targets written by the model
TargetId == <<"7">>
TargetMention == <<"<","#","8",">">>
TargetZero == <<"0">>
TargetBig == <<"1","8","4","4","6","7","4","4","0","7","3","7","0","9","5","5","1","6","1","6">>
TargetName == <<"#","G","e","n">>
TargetUnknown == <<"z">>
BodyPlain == <<"x">>

Directive(target, body) == SendOpen \o target \o Colon \o body \o SendClose

\* the parts a completion text is assembled from: whole directives, plain
\* text, and the two halves of a directive opener split inside "[[SEND:"
Parts ==
    { Directive(TargetId, BodyPlain),
      Directive(<<" ">> \o TargetMention \o <<" ">>, <<" ">> \o BodyPlain),
      Directive(TargetZero, BodyPlain),
      Directive(TargetBig, BodyPlain),
      Directive(TargetName, BodyPlain),
      Directive(TargetUnknown, BodyPlain),
      <<"h","i"," ">>,
      <<"[","[","S","E">>,
      <<"N","D",":","7",":","x","]","]">> }

\* all texts made of at most n parts
Texts(n) == { Flatten(ps) : ps \in UNION { [1..k -> Parts] : k \in 0..n } }

\* ------------------------------------------------------------------------
\* State
\* ------------------------------------------------------------------------
VARIABLES
    pc,                 \* position of the handler of the event
    ev,                 \* the event being handled (new_message)
    channel_configs,    \* Policy Store: rows of channel_configs, by channel id
    config,             \* the handler's local `config`
    messages,           \* Conversation Store: rows of messages, oldest first
    log,                \* collaborator calls issued so far, in order
    final_user_content, \* the handler's local `final_user_content`
    image_attachments,  \* the handler's local `image_attachments`
    history,            \* the handler's local `history`
    request,            \* the turns of the completion request
    ai,                 \* outcome of the completion call
    completion,         \* the decoded completion text
    content,            \* the handler's local `content` (visible text)
    commands,           \* the handler's local `commands`
    idx,                \* how far commands.iter().rev() has got (1-based)
    actions_taken,      \* the handler's local `actions_taken`
    final_reply,        \* the handler's local `final_reply`
    remaining,          \* the handler's local `remaining` of the chunk loop
    final_replacements, \* the handler's local `final_replacements`
    mention_cache,      \* Data::mention_cache: guild id -> replacements
    tasks,              \* the rebuild tasks spawned by the settings command
    cache_lock,         \* holders of a guard of the RwLock around mention_cache
    handle,             \* DiscordBotState::handle: None or the bot's JoinHandle
    guild_configs,      \* Policy Store: rows of guild_configs, by guild id
    guild_config,       \* the handler's local `guild_config`
    bots,               \* the bot tasks spawned by start_discord_bot, by number
    handle_lock,        \* holders of a guard of the RwLock around the handle
    ipc,                \* the calls of the desktop commands, in order
    sessions            \* the settings sessions: the component loops

vars == <<pc, ev, channel_configs, config, messages, log, final_user_content,
          image_attachments, history, request, ai, completion, content,
          commands, idx, actions_taken, final_reply, remaining,
          final_replacements, mention_cache, tasks, cache_lock, handle,
          guild_configs, guild_config, bots, handle_lock, ipc, sessions>>

locals == <<final_user_content, image_attachments, history, request, ai,
            completion, content, commands, idx, actions_taken, final_reply,
            remaining, final_replacements, guild_config>>

\* the handler has returned Ok(()), returned Err, or its task has panicked
Ended == pc \in {"ok", "err", "panic"}

NoEvent == [is_self |-> FALSE, mentions_me |-> FALSE, content |-> <<>>,
            has_guild |-> TRUE, attachments |-> <<>>, mentions |-> <<>>]

\* ------------------------------------------------------------------------
\* Stores (db.rs)
\* ------------------------------------------------------------------------
ChannelRows == [is_listening : BOOLEAN, shared_chat : BOOLEAN, listen_udin : BOOLEAN]

\* variant: a channel without a row listens
ListeningByDefault ==
    [is_listening |-> TRUE, shared_chat |-> FALSE, listen_udin |-> FALSE]

\* the record returned for a channel without a row
DefaultChannelConfig ==
    [is_listening |-> FALSE, shared_chat |-> FALSE, listen_udin |-> FALSE]

NoRows == [c \in {} |-> DefaultChannelConfig]

get_channel_config(channel_id) ==
    IF channel_id \in DOMAIN channel_configs
    THEN channel_configs[channel_id]
    ELSE DefaultChannelConfig

\* the guild_configs table: no row, or the row of a configured guild
NoGuildRows == [g \in {} |-> <<>>]

GuildConfig(chat_model, image_model, system_prompt) ==
    [chat_model |-> chat_model, image_model |-> image_model,
     system_prompt |-> system_prompt]

ConfiguredGuild == GuildConfig("gemini-2.0-flash", "", "Be brief.")

GuildTables == { NoGuildRows, [g \in {GuildId} |-> ConfiguredGuild] }

\* the record returned for a guild without a row
DefaultGuildConfig ==
    GuildConfig("gemini-2.5-flash", "gemini-3-pro-image", "You are a helpful assistant.")

\* the local before the read
NoGuildConfig == GuildConfig("", "", "")

get_guild_config(guild_id) ==
    IF guild_id \in DOMAIN guild_configs
    THEN guild_configs[guild_id]
    ELSE DefaultGuildConfig

Turn(guild_id, channel_id, user_id, role, text) ==
    [guild_id |-> guild_id, channel_id |-> channel_id, user_id |-> user_id,
     role |-> role, content |-> text]

\* variant: the store keeps the latest turn only
save_message_latest(rows, guild_id, channel_id, user_id, role, text) ==
    << Turn(guild_id, channel_id, user_id, role, text) >>

save_message(rows, guild_id, channel_id, user_id, role, text) ==
    Append(rows, Turn(guild_id, channel_id, user_id, role, text))

HistoryLimit == 20

\* the rows of a sequence that satisfy a test, in order
RECURSIVE SelectRows(_, _, _)
SelectRows(rows, channel_id, user) ==
    IF rows = <<>> THEN <<>>
    ELSE LET r == Head(rows)
             keep == /\ r.channel_id = channel_id
                     /\ (user = <<>> \/ r.user_id = user[1] \/ r.role = "assistant")
         IN  (IF keep THEN <<r>> ELSE <<>>) \o SelectRows(Tail(rows), channel_id, user)

\* ORDER BY created_at DESC LIMIT limit, then reversed: the last `limit` rows.
\* user is <<>> for None and <<id>> for Some(id)
get_chat_history(rows, channel_id, user, limit) ==
    LET sel == SelectRows(rows, channel_id, user)
    IN  IF Len(sel) <= limit THEN sel
        ELSE SubSeq(sel, Len(sel) - limit + 1, Len(sel))

\* ------------------------------------------------------------------------
\* The log of collaborator calls
\* ------------------------------------------------------------------------
\* op: "typing" | "lookup" | "download" | "save" | "history" | "complete"
\*     | "channels" | "roles" | "nick_in" | "members" | "send";  kind: what is sent or saved;  ref: the index
\* (textual order) of the directive the call belongs to, else 0;  dest: the
\* destination channel id of a directive send
\* text: the text a directive send delivers, else empty
Call(op, kind, ref, dest, ok) ==
    [op |-> op, kind |-> kind, ref |-> ref, dest |-> dest, ok |-> ok, text |-> <<>>]

\* target_channel.say(&ctx.http, resolved_msg) of the directive of index i
Say(i, dest, ok, text) ==
    [op |-> "send", kind |-> "directive", ref |-> i, dest |-> dest, ok |-> ok,
     text |-> text]

Typing == Call("typing", "", 0, <<>>, TRUE)

\* ------------------------------------------------------------------------
\* Init
\* ------------------------------------------------------------------------
\* DiscordBotState::handle: None, or Some(handle) of the spawned bot task
NoHandle == <<>>
BotHandle == <<1>>

PriorTurn == Turn(GuildId, ChannelIdOfEvent, OtherUserId, "user", <<"[","a","l","]",":"," ","y","o">>)

InitLocals ==
    /\ final_user_content = <<>>
    /\ image_attachments = <<>>
    /\ history = <<>>
    /\ request = <<>>
    /\ ai = "none"
    /\ completion = <<>>
    /\ content = <<>>
    /\ commands = <<>>
    /\ idx = 0
    /\ actions_taken = <<>>
    /\ final_reply = <<>>
    /\ remaining = <<>>
    /\ final_replacements = <<>>
    /\ guild_config = NoGuildConfig

Init ==
    /\ pc = "idle"
    /\ ev = NoEvent
    /\ channel_configs \in {NoRows} \cup [{ChannelIdOfEvent} -> ChannelRows]
    /\ config = DefaultChannelConfig
    /\ messages = <<PriorTurn>>
    /\ log = <<>>
    /\ mention_cache = [g \in {} |-> <<>>]
    /\ tasks = <<>>
    /\ cache_lock = {}
    /\ handle = BotHandle
    /\ bots = <<"running">>
    /\ handle_lock = {}
    /\ ipc = <<>>
    /\ sessions = <<>>
    /\ guild_configs \in GuildTables
    /\ InitLocals

\* ------------------------------------------------------------------------
\* event_handler, lines 11-78: own message, trigger, player lookup
\* ------------------------------------------------------------------------
Keyword == <<"d","i","n">>

\* variant: the keyword triggers whatever the secondary-trigger flag says
should_process_any_keyword(cfg, e) ==
    cfg.is_listening \/ e.mentions_me \/ contains(to_lowercase(e.content), Keyword)

should_process(cfg, e) ==
    IF cfg.is_listening THEN TRUE
    ELSE LET mentions_me == e.mentions_me
             udin_triggered == cfg.listen_udin /\ contains(to_lowercase(e.content), Keyword)
         IN  mentions_me \/ udin_triggered

\* the fid of the player lookup: group 1 of player_re parsed as u64
player_fid(text) ==
    LET d == player_re(text)
    IN  IF d = None THEN None ELSE parse_u64(d)

ReceiveOf(events) ==
    /\ pc = "idle"
    /\ \E e \in events, db_ok \in BOOLEAN :
        /\ ev' = e
        /\ IF e.is_self
           THEN pc' = "ok" /\ UNCHANGED config
           ELSE IF ~db_ok
           THEN pc' = "err" /\ UNCHANGED config
           ELSE /\ config' = get_channel_config(ChannelIdOfEvent)
                /\ pc' = IF ~should_process(config', e) THEN "ok"
                         ELSE IF player_fid(e.content) # None THEN "lookup"
                         ELSE "attach"
    /\ UNCHANGED <<guild_configs, channel_configs, messages, log, mention_cache, tasks, cache_lock, handle, bots, handle_lock,
                   ipc, sessions, locals>>

Receive == ReceiveOf(Events)

PlayerLookup ==
    /\ pc = "lookup"
    /\ \E found \in BOOLEAN, sent \in BOOLEAN :
        /\ log' = log \o << Typing,
                            Call("lookup", "", 0, player_fid(ev.content), found),
                            Call("send", IF found THEN "player_embed" ELSE "player_error",
                                 0, <<>>, sent) >>
        /\ pc' = IF sent THEN "ok" ELSE "err"
    /\ UNCHANGED <<guild_configs, ev, channel_configs, config, messages, mention_cache, tasks, cache_lock, handle, bots, handle_lock,
                   ipc, sessions, locals>>

\* ------------------------------------------------------------------------
\* event_handler, lines 84-119: attachments
\* ------------------------------------------------------------------------
\* (the three backquotes of the fence are written as three tildes)
FencedBlock(filename, text) ==
    <<"\n","\n","[","A","t","t","a","c","h","e","d"," ","F","i","l","e"," ","'">> \o filename \o <<"'","]",":","\n","~","~","~","\n">> \o text \o <<"\n","~","~","~">>

\* one iteration of the loop; st = [text, images, calls], outcome is what
\* the download does: "ok" | "body_err" (resp.text() fails) | "send_err"
AttachOne(st, att, outcome) ==
    IF att.content_type = "none" THEN st
    ELSE IF att.content_type = "text" \/ att.listed_ext
    THEN IF att.size < TextCap
         THEN IF outcome = "ok"
              THEN [st EXCEPT !.text = @ \o FencedBlock(FileName, FileText),
                              !.calls = Append(@, Call("download", "text", 0, <<>>, TRUE))]
              ELSE IF outcome = "body_err"
              THEN [st EXCEPT !.calls = Append(@, Call("download", "text", 0, <<>>, FALSE))]
              ELSE [st EXCEPT !.calls = @ \o
                      << Call("download", "text", 0, <<>>, FALSE),
                         Call("send", "attach_warning", 0, <<>>, TRUE) >>]
         ELSE st
    ELSE IF att.content_type = "image"
    THEN IF att.size < ImageCap
         THEN [st EXCEPT !.images = Append(@, "url")]
         ELSE st
    ELSE st

RECURSIVE AttachAll(_, _, _)
AttachAll(st, atts, outcomes) ==
    IF atts = <<>> THEN st
    ELSE AttachAll(AttachOne(st, Head(atts), Head(outcomes)), Tail(atts), Tail(outcomes))

Attachments ==
    /\ pc = "attach"
    /\ \E outcomes \in [1..Len(ev.attachments) -> {"ok", "body_err", "send_err"}] :
        LET st == AttachAll([text |-> ev.content, images |-> <<>>, calls |-> <<>>],
                            ev.attachments, outcomes)
        IN  /\ final_user_content' = st.text
            /\ image_attachments' = st.images
            /\ log' = log \o st.calls
    /\ pc' = "save_user"
    /\ UNCHANGED <<guild_configs, ev, channel_configs, config, messages, mention_cache, tasks, cache_lock, handle, bots, handle_lock,
                   ipc, sessions, history,
                   request, ai, completion, content, commands, idx, actions_taken,
                   final_reply, remaining,
                   final_replacements, guild_config>>

\* ------------------------------------------------------------------------
\* event_handler, lines 122-149: attribution, user turn, guild config, history
\* ------------------------------------------------------------------------
\* variant: the content is saved without its attribution
attributed_content_bare(author_display_name, text) == text

attributed_content(author_display_name, text) ==
    <<"[">> \o author_display_name \o <<"]",":"," ">> \o text

\* nick is what nick_in returns: None or the nickname; the save may fail
SaveUser ==
    /\ pc = "save_user"
    /\ \E nick \in {None, AuthorNick}, db_ok \in BOOLEAN :
        LET author_display_name == IF nick # None THEN nick ELSE AuthorName
            text == attributed_content(author_display_name, final_user_content)
        IN  IF ~db_ok
            THEN pc' = "err" /\ UNCHANGED <<messages, log>>
            ELSE /\ messages' = save_message(messages, GuildId, ChannelIdOfEvent,
                                             AuthorId, "user", text)
                 /\ log' = Append(log, Call("save", "user", 0, <<>>, TRUE))
                 /\ pc' = "history"
    /\ UNCHANGED <<guild_configs, ev, channel_configs, config, mention_cache, tasks, cache_lock, handle, bots, handle_lock,
                   ipc, sessions,
                   final_user_content, image_attachments, history, request, ai,
                   completion, content, commands, idx, actions_taken, final_reply,
                   remaining, final_replacements, guild_config>>

\* lines 141-149: the guild configuration and the history are read; db_fail
\* is the store call that fails: "guild_config" | "history" | "none"
GetHistory ==
    /\ pc = "history"
    /\ \E db_fail \in {"guild_config", "history", "none"} :
        IF db_fail = "none"
        THEN /\ guild_config' = get_guild_config(GuildId)
             /\ history' = get_chat_history(messages, ChannelIdOfEvent,
                              IF config.shared_chat THEN <<>> ELSE <<AuthorId>>,
                              HistoryLimit)
             /\ log' = Append(log, Call("history", "", 0, <<>>, TRUE))
             /\ pc' = "context"
        ELSE /\ pc' = "err"
             /\ guild_config' = IF db_fail = "history" THEN get_guild_config(GuildId)
                                ELSE guild_config
             /\ UNCHANGED <<history, log>>
    /\ UNCHANGED <<guild_configs, ev, channel_configs, config, messages, mention_cache, tasks, cache_lock,
                   handle, bots, handle_lock,
                   ipc, sessions, final_user_content, image_attachments, request, ai,
                   completion, content, commands, idx, actions_taken, final_reply,
                   remaining, final_replacements>>

\* The handlers of other events of the same channel run at the same time and
\* save their turns (lines 132 and 583): the user turn of another user, or
\* the assistant's reply to another user (stored under the bot's id).
OtherUserTurn ==
    Turn(GuildId, ChannelIdOfEvent, OtherUserId, "user", <<"[","a","l","]",":"," ","h","m">>)
OtherReply ==
    Turn(GuildId, ChannelIdOfEvent, BotId, "assistant", <<"h","i"," ","a","l">>)

\* the rows stored after the last user turn of the author of the event
RowsAfterOwn(rows) ==
    LET own == { i \in 1..Len(rows) : rows[i].user_id = AuthorId /\ rows[i].role = "user" }
    IN  IF own = {} THEN Len(rows)
        ELSE Len(rows) - (CHOOSE i \in own : \A j \in own : j <= i)

\* between the save and the history read of the handler, another handler
\* appends a turn
OtherTurn ==
    /\ pc = "history"
    /\ RowsAfterOwn(messages) < MaxOthers
    /\ \E turn \in {OtherUserTurn, OtherReply} : messages' = Append(messages, turn)
    /\ UNCHANGED <<guild_configs, pc, ev, channel_configs, config, log, mention_cache, tasks, cache_lock,
                   handle, bots, handle_lock,
                   ipc, sessions, locals>>

\* ------------------------------------------------------------------------
\* event_handler, lines 151-300: entity context and the request turns
\* ------------------------------------------------------------------------
\* ChannelId::new panics on the id 0
ChannelIdNewPanics(tid) == tid = <<"0">>

\* the request turns: the history, with the last turn rewritten into a parts
\* list (its text and the images that could be downloaded) when there are
\* image attachments and the last turn is a user turn
BuildTurns(hist, images, downloaded) ==
    [i \in 1..Len(hist) |->
        IF i = Len(hist) /\ images # <<>> /\ hist[i].role = "user"
        THEN [role |-> hist[i].role, text |-> hist[i].content, parts |-> TRUE,
              images |-> downloaded]
        ELSE [role |-> hist[i].role, text |-> hist[i].content, parts |-> FALSE,
              images |-> <<>>]]

\* the last turn of the history is rewritten: the images are downloaded
rewrites(hist, images) ==
    hist # <<>> /\ images # <<>> /\ hist[Len(hist)].role = "user"

\* variant: the first failed download ends the loop over the images
attempted_until_failure(images, got) ==
    { k \in 1..Len(images) : \A j \in 1..(k - 1) : got[j] }

\* `for img_url in &image_attachments`: every image is attempted, whatever
\* the result got[j] of the downloads before it
attempted(images, got) == 1..Len(images)

\* the images of the parts list: those attempted and downloaded, in order
RECURSIVE content_parts(_, _, _)
content_parts(images, got, k) ==
    IF k > Len(images) THEN <<>>
    ELSE (IF k \in attempted(images, got) /\ got[k] THEN <<images[k]>> ELSE <<>>)
         \o content_parts(images, got, k + 1)

\* the download calls of the images, in order
RECURSIVE downloads(_, _, _)
downloads(images, got, k) ==
    IF k > Len(images) THEN <<>>
    ELSE (IF k \in attempted(images, got)
          THEN << Call("download", "image", k, <<>>, got[k]) >> ELSE <<>>)
         \o downloads(images, got, k + 1)

BuildContext ==
    /\ pc = "context"
    /\ IF \E d \in channel_re(ev.content) :
             parse_u64(d) # None /\ ChannelIdNewPanics(parse_u64(d))
       THEN pc' = "panic" /\ UNCHANGED <<request, log>>
       ELSE /\ \E got \in [1..Len(image_attachments) -> BOOLEAN] :
                 /\ request' = BuildTurns(history, image_attachments,
                                          content_parts(image_attachments, got, 1))
                 /\ log' = IF rewrites(history, image_attachments)
                           THEN log \o downloads(image_attachments, got, 1)
                           ELSE log
            /\ pc' = "call_ai"
    /\ UNCHANGED <<guild_configs, ev, channel_configs, config, messages, mention_cache, tasks, cache_lock,
                   handle, bots, handle_lock,
                   ipc, sessions, final_user_content, image_attachments, history, ai,
                   completion, content, commands, idx, actions_taken, final_reply,
                   remaining, final_replacements, guild_config>>

\* ------------------------------------------------------------------------
\* Mention substitution (lines 374-480 and 501-519)
\* ------------------------------------------------------------------------
IsWordChar(c) ==
    \/ \E i \in 1..26 : UpperChars[i] = c \/ LowerChars[i] = c
    \/ IsDigit(c)
    \/ c = "_"

IsWordAt(t, p) == p >= 1 /\ p <= Len(t) /\ IsWordChar(t[p])

\* (?i)<escaped pattern>\b matches at position p
MentionAt(t, p, pattern) ==
    /\ StartsWithAt(to_lowercase(t), p, to_lowercase(pattern))
    /\ IsWordAt(t, p + Len(pattern) - 1) # IsWordAt(t, p + Len(pattern))

\* Regex::replace_all from position p on
RECURSIVE replace_from(_, _, _, _)
replace_from(t, p, pattern, value) ==
    IF p > Len(t) THEN <<>>
    ELSE IF pattern # <<>> /\ MentionAt(t, p, pattern)
    THEN value \o replace_from(t, p + Len(pattern), pattern, value)
    ELSE <<t[p]>> \o replace_from(t, p + 1, pattern, value)

RECURSIVE apply_replacements(_, _)
apply_replacements(t, reps) ==
    IF reps = <<>> THEN t
    ELSE apply_replacements(replace_from(t, 1, Head(reps).pattern, Head(reps).value),
                            Tail(reps))

Replacement(pattern, value) == [pattern |-> pattern, value |-> value]

\* stable sort by descending pattern length (sort_by on b.len().cmp(a.len()))
RECURSIVE InsertByLen(_, _)
InsertByLen(sorted, r) ==
    IF sorted = <<>> THEN <<r>>
    ELSE IF Len(Head(sorted).pattern) >= Len(r.pattern)
    THEN <<Head(sorted)>> \o InsertByLen(Tail(sorted), r)
    ELSE <<r>> \o sorted

RECURSIVE SortByLen(_)
SortByLen(reps) ==
    IF reps = <<>> THEN <<>>
    ELSE InsertByLen(SortByLen(SubSeq(reps, 1, Len(reps) - 1)), reps[Len(reps)])

\* variant: the list is left in the order it was built
sort_by_skipped(reps) == reps

\* sort_by(|a, b| b.pattern.len().cmp(&a.pattern.len()))
sort_by(reps) == SortByLen(reps)

\* the guild directory: roles, channel listing, members
GuildRoles == << [id |-> <<"9">>, name |-> <<"m","o","d">>] >>
AuthorMention == <<"<","@","1",">">>
ChannelList == << [id |-> <<"7">>, name |-> <<"g","e","n">>],
                  [id |-> <<"8">>, name |-> <<"o","p","s">>] >>

\* a user with the nickname nick_in finds in the guild (None: no nickname)
User(id, name, global_name, nick) ==
    [id |-> id, name |-> name, global_name |-> global_name, nick |-> nick]

Author == User(<<"1">>, AuthorName, None, AuthorNick)
MemberJo == User(<<"2">>, <<"J","o">>, None, None)
MemberJoe == User(<<"3">>, <<"J","o","e">>, None, None)
MemberJoBang == User(<<"4">>, <<"J","o","!">>, None, None)

\* what a directory call returns: Err, or Ok with the items in the order
\* the returned map or list iterates
Fetched(ok, items) == [ok |-> ok, items |-> items]
FetchFailed == Fetched(FALSE, <<>>)
RoleFetches == { FetchFailed, Fetched(TRUE, GuildRoles) }
ChannelFetches == { FetchFailed, Fetched(TRUE, ChannelList) }
MemberFetches == { FetchFailed,
                   Fetched(TRUE, <<Author, MemberJo, MemberJoe>>),
                   Fetched(TRUE, <<Author, MemberJo, MemberJoBang>>) }

\* Replacement { pattern: "@<role name>", value: "<@&<role id>>" } per role
role_entries(roles) ==
    [i \in 1..Len(roles) |->
        Replacement(<<"@">> \o roles[i].name, <<"<","@","&">> \o roles[i].id \o <<">">>)]

\* Replacement { pattern: "#<channel name>", value: "<#<channel id>>" }
channel_entries(channels) ==
    [i \in 1..Len(channels) |->
        Replacement(<<"#">> \o channels[i].name, <<"<","#">> \o channels[i].id \o <<">">>)]

\* the names a user goes by: user name, global name, nickname
names(user, nick) ==
    <<user.name>>
    \o (IF user.global_name # None THEN <<user.global_name>> ELSE <<>>)
    \o (IF nick # None THEN <<nick>> ELSE <<>>)

\* one Replacement per name of the user, all with the user's mention
user_entries(user, nick) ==
    [i \in 1..Len(names(user, nick)) |->
        Replacement(<<"@">> \o names(user, nick)[i], <<"<","@">> \o user.id \o <<">">>)]

\* the tagged users of the message, then its author
users_to_check(e) == Append(e.mentions, Author)

\* what the fallback fetches: the roles, nick_in of each user to check
\* (nicks[i] is None or the nickname), the channel listing
FallbackFetches(e) ==
    [roles : RoleFetches,
     nicks : { ns \in [1..Len(users_to_check(e)) -> {None, AuthorNick}] :
                  \A i \in 1..Len(ns) : ns[i] \in {None, users_to_check(e)[i].nick} },
     channels : ChannelFetches]

NoFetch == [roles |-> FetchFailed, nicks |-> <<>>, channels |-> FetchFailed]

\* the fallback list built when the guild has no cache entry: roles, then
\* the tagged users and the author under each of their names, then channels
local_generated(e, f) ==
    sort_by(
        role_entries(f.roles.items)
        \o Flatten([i \in 1..Len(users_to_check(e)) |->
                       user_entries(users_to_check(e)[i], f.nicks[i])])
        \o channel_entries(f.channels.items))

\* the collaborator calls of the fallback, for the directive of index i
fallback_calls(e, f, i) ==
    << Call("roles", "fallback", i, <<>>, f.roles.ok) >>
    \o [k \in 1..Len(users_to_check(e)) |->
           Call("nick_in", "fallback", i, users_to_check(e)[k].id, f.nicks[k] # None)]
    \o << Call("channels", "fallback", i, <<>>, f.channels.ok) >>

\* one Replacement per name of each member: user name, global name, and
\* the member's nickname
member_entries(members) ==
    Flatten([i \in 1..Len(members) |-> user_entries(members[i], members[i].nick)])

\* new_replacements after the three fetches of a rebuild: the entries of
\* the roles, of the channels and of the members, in that order; a fetch
\* that failed adds nothing
fetched_replacements(roles, channels, members) ==
    role_entries(roles.items) \o channel_entries(channels.items)
    \o member_entries(members.items)

\* the list a rebuild inserts for what its three fetches returned
rebuilt(roles, channels, members) ==
    sort_by(fetched_replacements(roles, channels, members))

\* The guards of the RwLock around mention_cache.  A holder is Reader (the
\* read guard `cache_read` of the event handler, numbered 0) or the index,
\* from 1, of the rebuild task that holds the write guard `lock`.
Reader == 0

\* mention_cache.read().await returns once no write guard is held
can_read(lock) == lock \subseteq {Reader}

\* cache_clone.write().await returns once no guard is held
\* variant: the write guard is given while another guard is held
can_write_always(lock) == TRUE

can_write(lock) == lock = {}

\* variant: the guard is not released
drop_leaked(lock, who) == lock

\* drop(cache_read): the lock without the guard of `who`
drop(lock, who) == lock \ {who}

\* the body goes through the mention substitution
resolves_mentions(msg, e) == contains(msg, <<"@">>) /\ e.has_guild

\* variant: the fallback is built although the guild has a cache entry
cache_miss_always(msg, e, cache) == resolves_mentions(msg, e)

\* cached_replacements is None: the fallback is built
cache_miss(msg, e, cache) == resolves_mentions(msg, e) /\ GuildId \notin DOMAIN cache

\* the list the body substitution goes through (empty: no substitution)
replacements_for(msg, e, cache, f) ==
    IF ~resolves_mentions(msg, e) THEN <<>>
    ELSE IF cache_miss(msg, e, cache) THEN local_generated(e, f)
    ELSE cache[GuildId]

\* the text a directive delivers
resolved_msg(msg, reps) == apply_replacements(msg, reps)

\* step 9a takes the read guard
reads_cache(t, has_guild) ==
    (contains(t, <<"@">>) \/ contains(t, <<"#">>)) /\ has_guild

\* step 9a: the cached list applied to the visible text
resolve_content(t, has_guild, cache) ==
    IF reads_cache(t, has_guild) /\ GuildId \in DOMAIN cache
    THEN apply_replacements(t, cache[GuildId])
    ELSE t

\* ------------------------------------------------------------------------
\* event_handler, lines 302-338 and 591-601: the completion call
\* ------------------------------------------------------------------------
\* a completion longer than the plain-message ceiling
PlainCeiling == 2000
RichCeiling == 4000
LongText == [i \in 1..(PlainCeiling + 1) |-> "a"]
\* a text longer than the rich-block ceiling without a space or newline
Unbroken == [i \in 1..(RichCeiling + 1) |-> "a"]
\* a text that fits in two blocks split at its space
Spaced == [i \in 1..(PlainCeiling + RichCeiling) |-> IF i = RichCeiling THEN " " ELSE "a"]
\* a word, a newline, and a word longer than the rich-block ceiling
LongWord == <<"a", "a", "a", "\n">> \o Unbroken

\* a completion of two directives and a visible text
TwoDirectives ==
    Directive(TargetId, BodyPlain) \o Directive(TargetId, BodyPlain) \o BodyPlain

\* the completions of the end-to-end pipeline: no part, each single part,
\* the long text, two directives
Completions == {<<>>} \cup Parts \cup {LongText, TwoDirectives}

\* the state after the completion text was decoded and its directives collected
Decoded(text) ==
    /\ ai' = "decoded"
    /\ completion' = text
    /\ content' = text
    /\ commands' = extract_commands(text)
    /\ idx' = 1
    /\ actions_taken' = <<>>
    /\ pc' = IF commands' = <<>> THEN "resolve" ELSE "exec"

\* variant: nothing is sent when the AI service is not running
failure_replies_silent(outcome, sent) ==
    IF outcome = "unavailable"
    THEN <<>>
    ELSE << Call("send", "apology", 0, <<>>, sent) >>

\* what the handler sends when the completion call fails
failure_replies(outcome, sent) ==
    IF outcome = "unavailable"
    THEN << Call("send", "unavailable", 0, <<>>, sent) >>
    ELSE << Call("send", "apology", 0, <<>>, sent) >>

\* variant: a transport error is followed by a second attempt
completion_calls_retry(outcome) ==
    IF outcome = "transport"
    THEN << Typing, Call("complete", "", 0, <<>>, FALSE),
            Call("complete", "", 0, <<>>, FALSE) >>
    ELSE << Typing, Call("complete", "", 0, <<>>, outcome # "status") >>

\* the typing indicator and the one POST to /v1/chat/completions; the call
\* is ok when the response has a success status
completion_calls(outcome) ==
    << Typing, Call("complete", "", 0, <<>>, outcome \notin {"transport", "status"}) >>

CallAI ==
    /\ pc = "call_ai"
    /\ \E outcome \in {"unavailable", "transport", "status", "decode_err",
                        "no_content", "decoded"},
          sent \in BOOLEAN :
        IF outcome = "decoded"
        THEN /\ sent
             /\ \E text \in Completions : Decoded(text)
             /\ log' = log \o completion_calls(outcome)
        ELSE
          /\ ai' = outcome
          /\ UNCHANGED <<completion, content, commands, idx, actions_taken>>
          /\ IF outcome = "unavailable"
             THEN /\ log' = log \o failure_replies(outcome, sent)
                  /\ pc' = IF sent THEN "ok" ELSE "err"
             ELSE IF outcome \in {"transport", "status"}
             THEN /\ log' = log \o completion_calls(outcome) \o
                                   << Call("send", "apology", 0, <<>>, sent) >>
                  /\ pc' = IF sent THEN "ok" ELSE "err"
             ELSE /\ sent
                  /\ log' = log \o completion_calls(outcome)
                  /\ pc' = IF outcome = "decode_err" THEN "err" ELSE "ok"
    /\ UNCHANGED <<guild_configs, ev, channel_configs, config, messages, mention_cache, tasks, cache_lock, handle, bots, handle_lock,
                   ipc, sessions,
                   final_user_content, image_attachments, history, request,
                   final_reply, remaining,
                   final_replacements, guild_config>>

\* ------------------------------------------------------------------------
\* event_handler, lines 340-499: the directive loop
\* ------------------------------------------------------------------------
\* step 1 of the resolution: the id of a channel-mention token or of a bare
\* number, None when the target is neither or its digits are no u64
target_id(target_ref) ==
    LET d == id_re(target_ref)
    IN  IF d = None THEN None ELSE parse_u64(d)

\* step 2: the channels of the listing whose name is the target's name
name_matches(target_ref) ==
    { ch \in GuildChannels : eq_ignore_ascii_case(ch.name, trim_start_hash(target_ref)) }

SendError == <<"e","r","r">>
SentOutcome(ch) == <<"M","e","s","s","a","g","e"," ","s","e","n","t"," ","t","o"," ","<","#">> \o ch \o <<">">>
FailedOutcome(ch) == <<"F","a","i","l","e","d"," ","t","o"," ","s","e","n","d"," ","t","o"," ","<","#">> \o ch \o <<">",":"," ">> \o SendError
\* (the warning sign that opens the message is written "!")
NotFoundOutcome(target_ref) == <<"!"," ","C","o","u","l","d"," ","n","o","t"," ","f","i","n","d"," ","c","h","a","n","n","e","l"," ","'">> \o target_ref \o <<"'">>

\* variant: the last character of the range is left in place
replace_range_short(t, range) ==
    Slice(t, 1, range[1]) \o Slice(t, range[2] - 1, Len(t) + 1)

\* String::replace_range(range, "")
replace_range(t, range) == Slice(t, 1, range[1]) \o Slice(t, range[2], Len(t) + 1)

\* replace_range panics when the range does not lie inside the string
replace_range_panics(t, range) == range[2] > Len(t) + 1

\* variant: the commands are visited in textual order
rev_index_forward(n, k) == k

\* commands.iter().rev(): the index of the k-th element visited, of n
rev_index(n, k) == n - k + 1

\* the iteration for the k-th visited command ends with destination dest
\* (None: no channel found), after the collaborator calls `calls`
FinishDirective(dest, calls) ==
    LET i   == rev_index(Len(commands), idx)
        cmd == commands[i]
        miss == cache_miss(cmd.msg, ev, mention_cache)
    IN  \E f \in (IF miss THEN FallbackFetches(ev) ELSE {NoFetch}) :
          LET reps == replacements_for(cmd.msg, ev, mention_cache, f)
              fetched == IF miss THEN fallback_calls(ev, f, i) ELSE <<>>
          IN  /\ final_replacements' = reps
              /\ resolves_mentions(cmd.msg, ev) => can_read(cache_lock)
              /\ cache_lock' = IF resolves_mentions(cmd.msg, ev)
                               THEN drop(cache_lock \cup {Reader}, Reader) ELSE cache_lock
              /\ IF dest # None
                 THEN \E sent \in BOOLEAN :
                        /\ log' = log \o calls \o fetched \o
                                  << Say(i, dest, sent, resolved_msg(cmd.msg, reps)) >>
                        /\ actions_taken' = Append(actions_taken,
                               IF sent THEN SentOutcome(dest) ELSE FailedOutcome(dest))
                 ELSE /\ log' = log \o calls \o fetched
                      /\ actions_taken' = Append(actions_taken, NotFoundOutcome(cmd.target))
              /\ IF replace_range_panics(content, cmd.range)
                 THEN pc' = "panic" /\ UNCHANGED <<content, idx>>
                 ELSE /\ content' = replace_range(content, cmd.range)
                      /\ idx' = idx + 1
                      /\ pc' = IF idx' > Len(commands) THEN "resolve" ELSE "exec"

ExecDirective ==
    /\ pc = "exec"
    /\ idx <= Len(commands)
    /\ LET i   == rev_index(Len(commands), idx)
           cmd == commands[i]
           tid == target_id(cmd.target)
       IN  IF tid # None /\ ChannelIdNewPanics(tid)
           THEN /\ pc' = "panic"
                /\ UNCHANGED <<log, actions_taken, content, idx, final_replacements,
                               cache_lock>>
           ELSE IF tid # None
           THEN FinishDirective(tid, <<>>)
           ELSE IF ~ev.has_guild
           THEN FinishDirective(None, <<>>)
           ELSE \E listed \in BOOLEAN :
                  IF listed /\ name_matches(cmd.target) # {}
                  THEN \E ch \in name_matches(cmd.target) :
                         FinishDirective(ch.id, << Call("channels", "", i, <<>>, TRUE) >>)
                  ELSE FinishDirective(None, << Call("channels", "", i, <<>>, listed) >>)
    /\ UNCHANGED <<guild_configs, ev, channel_configs, config, messages, mention_cache, tasks, handle, bots, handle_lock,
                   ipc, sessions,
                   final_user_content, image_attachments, history, request, ai,
                   completion, commands, final_reply, remaining, guild_config>>

\* ------------------------------------------------------------------------
\* event_handler, lines 501-558: visible reply
\* ------------------------------------------------------------------------
\* variant: the assistant turn is saved right after the visible reply
AfterReply_unreported == "persist"

\* lines 560-575: the outcome report is sent when a directive had an outcome
AfterReply == IF actions_taken # <<>> THEN "report" ELSE "persist"

\* a visible message of the reply emitter: kind is "ack" | "reply" | "chunk"
Visible(kind, ok, text) ==
    [op |-> "send", kind |-> kind, ref |-> 0, dest |-> <<>>, ok |-> ok, text |-> text]

\* variant: the acknowledgement is also sent after directives
reply_mode_ack(t, outcomes) ==
    IF t # <<>> THEN (IF Len(t) > PlainCeiling THEN "rich" ELSE "plain") ELSE "ack"

\* lines 526-558: what the emitter does with the trimmed visible text
reply_mode(t, outcomes) ==
    IF t # <<>> THEN (IF Len(t) > PlainCeiling THEN "rich" ELSE "plain")
    ELSE IF outcomes = <<>> THEN "ack"
    ELSE "none"

AckText == <<"A","c","t","i","o","n"," ","p","r","o","c","e","s","s","e","d",".">>

EmitReply ==
    /\ pc = "resolve"
    /\ reads_cache(content, ev.has_guild) => can_read(cache_lock)
    /\ cache_lock' = IF reads_cache(content, ev.has_guild)
                     THEN drop(cache_lock \cup {Reader}, Reader) ELSE cache_lock
    /\ final_reply' = trim(resolve_content(content, ev.has_guild, mention_cache))
    /\ content' = resolve_content(content, ev.has_guild, mention_cache)
    /\ LET mode == reply_mode(final_reply', actions_taken)
       IN  IF mode = "rich"
           THEN /\ remaining' = final_reply'
                /\ pc' = "chunk"
                /\ UNCHANGED log
           ELSE IF mode = "none"
           THEN /\ pc' = AfterReply
                /\ UNCHANGED <<log, remaining>>
           ELSE /\ \E sent \in BOOLEAN :
                     /\ log' = Append(log,
                                  IF mode = "plain" THEN Visible("reply", sent, final_reply')
                                  ELSE Visible("ack", sent, AckText))
                     /\ pc' = IF sent THEN AfterReply ELSE "err"
                /\ UNCHANGED remaining
    /\ UNCHANGED <<guild_configs, ev, channel_configs, config, messages, mention_cache, tasks, handle, bots, handle_lock,
                   ipc, sessions,
                   final_user_content, image_attachments, history, request, ai,
                   completion, commands, idx, actions_taken,
                   final_replacements, guild_config>>

\* remaining[..limit].rfind(['\n', ' ']).unwrap_or(limit), as a 1-based
\* position: the chunk is t[1 .. split-1]
split_idx(t) ==
    IF Len(t) > RichCeiling
    THEN IF \E i \in 1..RichCeiling : t[i] \in {"\n", " "}
         THEN CHOOSE i \in 1..RichCeiling :
                  /\ t[i] \in {"\n", " "}
                  /\ \A j \in (i + 1)..RichCeiling : t[j] \notin {"\n", " "}
         ELSE RichCeiling + 1
    ELSE Len(t) + 1

\* the chunk sends issued so far
ChunkSends == { i \in 1..Len(log) : log[i].op = "send" /\ log[i].kind = "chunk" }

\* one iteration of the chunk loop
SendChunk ==
    /\ pc = "chunk"
    /\ remaining # <<>>
    /\ Cardinality(ChunkSends) < MaxChunks
    /\ \E sent \in BOOLEAN :
        /\ log' = Append(log, Visible("chunk", sent,
                                      Slice(remaining, 1, split_idx(remaining))))
        /\ IF sent
           THEN /\ remaining' = Slice(remaining, split_idx(remaining), Len(remaining) + 1)
                /\ pc' = IF remaining' = <<>> THEN AfterReply ELSE "chunk"
           ELSE pc' = "err" /\ UNCHANGED remaining
    /\ UNCHANGED <<guild_configs, ev, channel_configs, config, messages, mention_cache, tasks, cache_lock, handle, bots, handle_lock,
                   ipc, sessions,
                   final_user_content, image_attachments, history, request, ai,
                   completion, content, commands, idx, actions_taken, final_reply,
                   final_replacements, guild_config>>

\* ------------------------------------------------------------------------
\* event_handler, lines 560-589: outcome report and the assistant turn
\* ------------------------------------------------------------------------
has_errors(outcomes) ==
    \E i \in 1..Len(outcomes) :
        \/ contains(outcomes[i], <<"F","a","i","l","e","d">>)
        \/ contains(outcomes[i], <<"C","o","u","l","d"," ","n","o","t"," ","f","i","n","d">>)

Report ==
    /\ pc = "report"
    /\ \E sent \in BOOLEAN :
        /\ log' = Append(log, Call("send",
                     IF has_errors(actions_taken) THEN "report" ELSE "confirm",
                     0, <<>>, sent))
        /\ pc' = IF sent THEN "persist" ELSE "err"
    /\ UNCHANGED <<guild_configs, ev, channel_configs, config, messages, mention_cache, tasks, cache_lock, handle, bots, handle_lock,
                   ipc, sessions, locals>>

saved_content(reply, outcomes) ==
    IF outcomes # <<>>
    THEN reply \o <<"\n","[","S","y","s","t","e","m"," ","R","e","p","o","r","t",":"," ">> \o join(outcomes, <<","," ">>) \o <<"]">>
    ELSE reply

SaveAssistant ==
    /\ pc = "persist"
    /\ \E db_ok \in BOOLEAN :
        IF db_ok
        THEN /\ messages' = save_message(messages, GuildId, ChannelIdOfEvent, BotId,
                                "assistant", saved_content(final_reply, actions_taken))
             /\ log' = Append(log, Call("save", "assistant", 0, <<>>, TRUE))
             /\ pc' = "ok"
        ELSE /\ log' = Append(log, Call("save", "assistant", 0, <<>>, FALSE))
             /\ pc' = "err"
             /\ UNCHANGED messages
    /\ UNCHANGED <<guild_configs, ev, channel_configs, config, mention_cache, tasks, cache_lock, handle, bots, handle_lock,
                   ipc, sessions, locals>>

\* ------------------------------------------------------------------------
\* settings (commands.rs, lines 16-178): the toggles and the cache rebuild
\* ------------------------------------------------------------------------
OtherGuildId == "g2"
Guilds == {GuildId, OtherGuildId}

\* the channel the settings command was invoked in
ChannelOf(g) == IF g = GuildId THEN ChannelIdOfEvent ELSE "c2"

Toggles == {"toggle_listen", "toggle_shared", "toggle_udin"}

\* the row after the toggle of custom_id
toggled(cfg, custom_id) ==
    IF custom_id = "toggle_listen" THEN [cfg EXCEPT !.is_listening = ~@]
    ELSE IF custom_id = "toggle_shared" THEN [cfg EXCEPT !.shared_chat = ~@]
    ELSE [cfg EXCEPT !.listen_udin = ~@]

\* INSERT ... ON CONFLICT(channel_id) DO UPDATE
update_channel_config(rows, channel_id, cfg) ==
    [c \in DOMAIN rows \cup {channel_id} |-> IF c = channel_id THEN cfg ELSE rows[c]]

\* variant: every toggle refreshes the cache
refreshes_always(cfg, custom_id) == TRUE

\* "If turning ON, refresh the cache": cfg is the row after the toggle
refreshes(cfg, custom_id) ==
    \/ custom_id = "toggle_listen" /\ cfg.is_listening
    \/ custom_id = "toggle_udin" /\ cfg.listen_udin

\* a rebuild task as tokio::spawn leaves it: nothing fetched yet
Task(g) == [guild |-> g, pc |-> "fetch", new_replacements |-> <<>>]

\* one interaction of the component loop with a toggle button: the row is
\* read, toggled and written, the rebuild is spawned when the flag was
\* turned on, and the settings message is updated.  The log gets one entry:
\* op "menu" for update_settings_menu (ref 1 when a rebuild was spawned), op
\* "db_error" when the store refused the read or the write.
Toggle ==
    /\ pc = "idle"
    /\ Len(log) < MaxToggles
    /\ \E g \in Guilds, custom_id \in Toggles, db_ok \in BOOLEAN :
         LET cfg == toggled(get_channel_config(ChannelOf(g)), custom_id)
         IN  IF ~db_ok
             THEN /\ log' = Append(log, Call("db_error", custom_id, 0, g, FALSE))
                  /\ UNCHANGED <<channel_configs, tasks>>
             ELSE /\ channel_configs' = update_channel_config(channel_configs, ChannelOf(g), cfg)
                  /\ tasks' = IF refreshes(cfg, custom_id) THEN Append(tasks, Task(g))
                              ELSE tasks
                  /\ log' = Append(log, Call("menu", custom_id,
                                   IF refreshes(cfg, custom_id) THEN 1 ELSE 0, g, TRUE))
    /\ UNCHANGED <<guild_configs, pc, ev, config, messages, mention_cache, cache_lock, handle, bots, handle_lock,
                   ipc, sessions, locals>>

\* the spawned task fetches the roles, the channels and the members (up to
\* 1000) of its guild; the three calls only read the guild directory
RebuildFetch ==
    /\ \E k \in 1..Len(tasks), r \in RoleFetches, c \in ChannelFetches, m \in MemberFetches :
         /\ tasks[k].pc = "fetch"
         /\ tasks' = [tasks EXCEPT ![k].pc = "lock",
                                   ![k].new_replacements = fetched_replacements(r, c, m)]
    /\ UNCHANGED <<guild_configs, pc, ev, channel_configs, config, messages, log, mention_cache, cache_lock,
                   handle, bots, handle_lock,
                   ipc, sessions, locals>>

\* variant: the new entries are put in front of the guild's previous entries
cache_insert_merged(cache, gid_str, list) ==
    [g \in DOMAIN cache \cup {gid_str} |->
        IF g # gid_str THEN cache[g]
        ELSE IF g \in DOMAIN cache THEN list \o cache[g] ELSE list]

\* lock.insert(gid_str, GuildCache { replacements: new_replacements })
cache_insert(cache, gid_str, list) ==
    [g \in DOMAIN cache \cup {gid_str} |-> IF g = gid_str THEN list ELSE cache[g]]

\* the task sorts its list and takes the write guard
RebuildLock ==
    /\ \E k \in 1..Len(tasks) :
         /\ tasks[k].pc = "lock"
         /\ can_write(cache_lock)
         /\ cache_lock' = cache_lock \cup {k}
         /\ tasks' = [tasks EXCEPT ![k].pc = "insert",
                                   ![k].new_replacements = sort_by(@)]
    /\ UNCHANGED <<guild_configs, pc, ev, channel_configs, config, messages, log, mention_cache, handle, bots, handle_lock,
                   ipc, sessions,
                   locals>>

\* the task inserts its list; the write guard is dropped as the task ends
RebuildInsert ==
    /\ \E k \in 1..Len(tasks) :
         /\ tasks[k].pc = "insert"
         /\ mention_cache' = cache_insert(mention_cache, tasks[k].guild,
                                          tasks[k].new_replacements)
         /\ cache_lock' = drop(cache_lock, k)
         /\ tasks' = [tasks EXCEPT ![k].pc = "done"]
    /\ UNCHANGED <<guild_configs, pc, ev, channel_configs, config, messages, log, handle, bots, handle_lock,
                   ipc, sessions, locals>>

\* ------------------------------------------------------------------------
\* The wipes of the Conversation Store
\* ------------------------------------------------------------------------
\* variant: DELETE FROM messages
clear_chat_history_all(rows, guild_id) == <<>>

\* db.rs, lines 229-239: DELETE FROM messages WHERE guild_id = ?
clear_chat_history(rows, guild_id) ==
    LET Kept(r) == r.guild_id # guild_id IN SelectSeq(rows, Kept)

\* commands/discord.rs, lines 326-337: DELETE FROM messages WHERE channel_id = ?
clear_channel_messages(rows, channel_id) ==
    LET Kept(r) == r.channel_id # channel_id IN SelectSeq(rows, Kept)

\* "c3" is a channel of the other guild
Channels == {ChannelIdOfEvent, "c2", "c3"}

\* the button btn_clear_memory of the settings message of guild g
ClearMemory ==
    /\ \E g \in Guilds : messages' = clear_chat_history(messages, g)
    /\ UNCHANGED <<pc, ev, channel_configs, guild_configs, config, log, mention_cache,
                   tasks, cache_lock, handle, bots, handle_lock,
                   ipc, sessions, locals>>

\* the desktop command clear_channel_messages
ClearChannel ==
    /\ \E c \in Channels : messages' = clear_channel_messages(messages, c)
    /\ UNCHANGED <<pc, ev, channel_configs, guild_configs, config, log, mention_cache,
                   tasks, cache_lock, handle, bots, handle_lock,
                   ipc, sessions, locals>>

\* ------------------------------------------------------------------------
\* stop_discord_bot (commands/discord.rs, lines 164-186)
\* ------------------------------------------------------------------------
\* handle_lock.take() and handle.abort(): the task behind the handle is
\* the one that runs start_bot.  The rebuild tasks were spawned on their own
\* by tokio::spawn and are behind no handle: the abort does not reach them.
\* Whether a handler in flight is cancelled with the bot task is the
\* gateway library's business: either outcome.
\* JoinHandle::abort: the task is cancelled at its next await point; a task
\* that has ended already stays as it is
abort(status) == IF status = "running" THEN "aborted" ELSE status

\* The write guard is held from handle_lock.take() to the return; a stop
\* that finds no handle changes nothing.
stop_discord_bot ==
    /\ can_write(handle_lock)
    /\ handle # NoHandle
    /\ handle' = NoHandle
    /\ bots' = [bots EXCEPT ![handle[1]] = abort(@)]
    /\ pc' \in {pc} \cup (IF pc = "idle" \/ Ended THEN {} ELSE {"aborted"})
    /\ UNCHANGED <<guild_configs, ev, channel_configs, config, messages, log, mention_cache, tasks,
                   cache_lock, handle_lock, ipc, sessions, locals>>

\* ------------------------------------------------------------------------
\* start_discord_bot, get_discord_bot_status (commands/discord.rs, 61-197)
\* ------------------------------------------------------------------------
\* a call of a desktop command: pc is "init" | "done"; running is the
\* result: "pending" | "running" | "not_running", or the error returned:
\* "err_token" (the bot token is empty) | "err_db" (init_db failed)
IpcCall(op, at, running) == [op |-> op, pc |-> at, running |-> running]

\* lines 71-85: the token check, the write guard, and the early return when
\* a handle is stored
start_discord_bot ==
    /\ Len(ipc) < MaxCalls
    /\ \E token_empty \in BOOLEAN :
         IF token_empty
         THEN /\ ipc' = Append(ipc, IpcCall("start", "done", "err_token"))
              /\ UNCHANGED handle_lock
         ELSE /\ can_write(handle_lock)
              /\ IF handle # NoHandle
                 THEN /\ ipc' = Append(ipc, IpcCall("start", "done", "running"))
                      /\ UNCHANGED handle_lock
                 ELSE /\ ipc' = Append(ipc, IpcCall("start", "init", "pending"))
                      /\ handle_lock' = handle_lock \cup {Len(ipc) + 1}
    /\ UNCHANGED <<guild_configs, pc, ev, channel_configs, config, messages, log, mention_cache, tasks,
                   cache_lock, handle, bots, sessions, locals>>

\* lines 87-161: init_db, tokio::spawn of the bot task, the handle is stored
\* and the guard is dropped
start_discord_bot_spawn ==
    /\ \E k \in 1..Len(ipc), db_ok \in BOOLEAN :
         /\ ipc[k].op = "start" /\ ipc[k].pc = "init"
         /\ IF db_ok
            THEN /\ bots' = Append(bots, "running")
                 /\ handle' = <<Len(bots) + 1>>
                 /\ ipc' = [ipc EXCEPT ![k] = IpcCall("start", "done", "running")]
            ELSE /\ ipc' = [ipc EXCEPT ![k] = IpcCall("start", "done", "err_db")]
                 /\ UNCHANGED <<bots, handle>>
         /\ handle_lock' = drop(handle_lock, k)
    /\ UNCHANGED <<guild_configs, pc, ev, channel_configs, config, messages, log, mention_cache, tasks,
                   cache_lock, sessions, locals>>

\* lines 192-195: running: handle_lock.is_some()
status_of(h, tasks_) == h # NoHandle

get_discord_bot_status ==
    /\ Len(ipc) < MaxCalls
    /\ can_read(handle_lock)
    /\ ipc' = Append(ipc, IpcCall("status", "done",
                 IF status_of(handle, bots) THEN "running" ELSE "not_running"))
    /\ UNCHANGED <<guild_configs, pc, ev, channel_configs, config, messages, log, mention_cache, tasks,
                   cache_lock, handle, bots, handle_lock, sessions, locals>>

\* lines 145-156: start_bot returns (the token is rejected, the gateway
\* connection is lost for good) and the bot task ends on its own
BotEnds ==
    /\ \E k \in 1..Len(bots) :
         /\ bots[k] = "running"
         /\ bots' = [bots EXCEPT ![k] = "ended"]
    /\ UNCHANGED <<guild_configs, pc, ev, channel_configs, config, messages, log, mention_cache, tasks,
                   cache_lock, handle, handle_lock, ipc, sessions, locals>>

\* ------------------------------------------------------------------------
\* settings (commands.rs, lines 28-178): two sessions on one store
\* ------------------------------------------------------------------------
\* Each invocation of the command runs its component loop in a task of its
\* own.  A toggle is two store calls, a read and a write of the whole row;
\* Toggle above is the two of them for one session with nothing in between.
\* a settings session waiting in its component loop; config is its local
Session(g) == [guild |-> g, pc |-> "wait", custom_id |-> "", config |-> DefaultChannelConfig]

\* the toggles that were begun
Begun == Len(log) + Cardinality({ s \in 1..Len(sessions) : sessions[s].pc = "write" })

\* a button is pressed in session s: db::get_channel_config and the flip of
\* the flag in the local (for toggle_listen lines 33-34)
ToggleRead ==
    /\ Begun < MaxToggles
    /\ \E s \in 1..Len(sessions), custom_id \in Toggles, db_ok \in BOOLEAN :
         /\ sessions[s].pc = "wait"
         /\ IF db_ok
            THEN /\ sessions' = [sessions EXCEPT
                        ![s].pc = "write", ![s].custom_id = custom_id,
                        ![s].config = toggled(get_channel_config(ChannelOf(sessions[s].guild)),
                                              custom_id)]
                 /\ UNCHANGED log
            ELSE /\ sessions' = [sessions EXCEPT ![s].pc = "err"]
                 /\ log' = Append(log, Call("db_error", custom_id, 0, sessions[s].guild, FALSE))
    /\ UNCHANGED <<guild_configs, pc, ev, channel_configs, config, messages, mention_cache, tasks,
                   cache_lock, handle, bots, handle_lock, ipc, locals>>

\* db::update_channel_config of the whole local row, the rebuild spawned
\* when the flag was turned on, and update_settings_menu (lines 35-101)
ToggleWrite ==
    /\ \E s \in 1..Len(sessions), db_ok \in BOOLEAN :
         LET g == sessions[s].guild
             cfg == sessions[s].config
             custom_id == sessions[s].custom_id
         IN  /\ sessions[s].pc = "write"
             /\ IF db_ok
                THEN /\ channel_configs' = update_channel_config(channel_configs, ChannelOf(g), cfg)
                     /\ tasks' = IF refreshes(cfg, custom_id) THEN Append(tasks, Task(g))
                                 ELSE tasks
                     /\ log' = Append(log, Call("menu", custom_id,
                                      IF refreshes(cfg, custom_id) THEN 1 ELSE 0, g, TRUE))
                     /\ sessions' = [sessions EXCEPT ![s].pc = "wait"]
                ELSE /\ log' = Append(log, Call("db_error", custom_id, 0, g, FALSE))
                     /\ sessions' = [sessions EXCEPT ![s].pc = "err"]
                     /\ UNCHANGED <<channel_configs, tasks>>
    /\ UNCHANGED <<guild_configs, pc, ev, config, messages, mention_cache,
                   cache_lock, handle, bots, handle_lock, ipc, locals>>

\* ------------------------------------------------------------------------
\* Specifications
\* ------------------------------------------------------------------------
Next ==
    \/ Receive
    \/ PlayerLookup
    \/ Attachments
    \/ SaveUser
    \/ GetHistory
    \/ BuildContext
    \/ CallAI
    \/ ExecDirective
    \/ EmitReply
    \/ SendChunk
    \/ Report
    \/ SaveAssistant

Spec == Init /\ [][Next]_vars

\* The directive executor and the reply emitter on their own: the handler of
\* a plain message in a listening channel has just decoded the completion,
\* which is any text of at most MaxParts parts.
ListeningConfig ==
    [is_listening |-> TRUE, shared_chat |-> FALSE, listen_udin |-> FALSE]

\* (a message outside a guild is a direct message: its channel has no row,
\* and it is processed because it mentions the bot)
PlainEvent(has_guild) ==
    [is_self |-> FALSE, mentions_me |-> ~has_guild, content |-> ContentPlain,
     has_guild |-> has_guild, attachments |-> <<>>, mentions |-> <<>>]

RowsOfEvent(e) ==
    IF e.has_guild THEN [c \in {ChannelIdOfEvent} |-> ListeningConfig] ELSE NoRows

UserTurn == Turn(GuildId, ChannelIdOfEvent, AuthorId, "user",
                 attributed_content(AuthorName, ContentPlain))

InitDirectives ==
    /\ \E has_guild \in BOOLEAN : ev = PlainEvent(has_guild)
    /\ channel_configs = RowsOfEvent(ev)
    /\ config = get_channel_config(ChannelIdOfEvent)
    /\ messages = <<PriorTurn, UserTurn>>
    /\ log = << Call("save", "user", 0, <<>>, TRUE), Call("history", "", 0, <<>>, TRUE),
                Typing, Call("complete", "", 0, <<>>, TRUE) >>
    /\ mention_cache = [g \in {} |-> <<>>]
    /\ tasks = <<>>
    /\ cache_lock = {}
    /\ handle = BotHandle
    /\ bots = <<"running">>
    /\ handle_lock = {}
    /\ ipc = <<>>
    /\ sessions = <<>>
    /\ guild_configs = NoGuildRows
    /\ final_replacements = <<>>
    /\ guild_config = get_guild_config(GuildId)
    /\ final_user_content = ContentPlain
    /\ image_attachments = <<>>
    /\ history = <<UserTurn>>
    /\ request = BuildTurns(<<UserTurn>>, <<>>, <<>>)
    /\ ai = "decoded"
    /\ completion \in Texts(MaxParts)
    /\ content = completion
    /\ commands = extract_commands(completion)
    /\ idx = 1
    /\ actions_taken = <<>>
    /\ pc = IF commands = <<>> THEN "resolve" ELSE "exec"
    /\ final_reply = <<>>
    /\ remaining = <<>>

NextDirectives ==
    \/ ExecDirective
    \/ EmitReply
    \/ Report
    \/ SaveAssistant

SpecDirectives == InitDirectives /\ [][NextDirectives]_vars

\* The settings command and the rebuild tasks it spawns, with no message
\* event being handled.
NextCache ==
    \/ Toggle
    \/ RebuildFetch
    \/ RebuildLock
    \/ RebuildInsert

\* the bot has started and no channel has a row yet
InitCache ==
    /\ pc = "idle"
    /\ ev = NoEvent
    /\ channel_configs = NoRows
    /\ config = DefaultChannelConfig
    /\ messages = <<>>
    /\ log = <<>>
    /\ mention_cache = [g \in {} |-> <<>>]
    /\ tasks = <<>>
    /\ cache_lock = {}
    /\ handle = BotHandle
    /\ bots = <<"running">>
    /\ handle_lock = {}
    /\ ipc = <<>>
    /\ sessions = <<>>
    /\ guild_configs = NoGuildRows
    /\ InitLocals

SpecCache == InitCache /\ [][NextCache]_vars

\* The directive executor and the reply emitter with mentions: the completion
\* is one directive whose body may hold mentions, followed by visible text,
\* and the guild has no cache entry or the list some earlier rebuild inserted.
BodyJoe == <<"@","J","o","e">>
BodyJoLower == <<"@","j","o",".">>
BodyJoey == <<"@","J","o","e","y">>
BodyJoBang == <<"@","J","o","!">>
BodyNickChannel == <<"@","B"," ","#","g","e","n">>
BodyChannel == <<"#","g","e","n">>
BodyRole == <<"@","m","o","d">>
MentionBodies == { BodyJoe, BodyJoLower, BodyJoey, BodyJoBang, BodyNickChannel,
                   BodyChannel, BodyRole, BodyPlain }
VisibleTexts == { <<>>, BodyJoe, BodyJoBang, BodyChannel }
MentionCompletions ==
    { Directive(TargetId, b) \o v : b \in MentionBodies, v \in VisibleTexts }

CacheLists ==
    { rebuilt(r, c, m) : r \in RoleFetches, c \in ChannelFetches, m \in MemberFetches }

MentionEvent(has_guild, mentions) ==
    [is_self |-> FALSE, mentions_me |-> ~has_guild, content |-> ContentPlain,
     has_guild |-> has_guild, attachments |-> <<>>, mentions |-> mentions]

InitMentions ==
    /\ \E has_guild \in BOOLEAN, mentions \in {<<>>, <<MemberJo>>} :
           ev = MentionEvent(has_guild, mentions)
    /\ channel_configs = RowsOfEvent(ev)
    /\ config = get_channel_config(ChannelIdOfEvent)
    /\ messages = <<PriorTurn, UserTurn>>
    /\ log = << Call("save", "user", 0, <<>>, TRUE), Call("history", "", 0, <<>>, TRUE),
                Typing, Call("complete", "", 0, <<>>, TRUE) >>
    /\ mention_cache \in {[g \in {} |-> <<>>]}
                         \cup { [g \in {GuildId} |-> l] : l \in CacheLists }
    /\ tasks = <<>>
    /\ cache_lock = {}
    /\ handle = BotHandle
    /\ bots = <<"running">>
    /\ handle_lock = {}
    /\ ipc = <<>>
    /\ sessions = <<>>
    /\ guild_configs = NoGuildRows
    /\ final_replacements = <<>>
    /\ guild_config = get_guild_config(GuildId)
    /\ final_user_content = ContentPlain
    /\ image_attachments = <<>>
    /\ history = <<UserTurn>>
    /\ request = BuildTurns(<<UserTurn>>, <<>>, <<>>)
    /\ ai = "decoded"
    /\ completion \in MentionCompletions
    /\ content = completion
    /\ commands = extract_commands(completion)
    /\ idx = 1
    /\ actions_taken = <<>>
    /\ pc = "exec"
    /\ final_reply = <<>>
    /\ remaining = <<>>

SpecMentions == InitMentions /\ [][NextDirectives]_vars

\* The handler of a guild message and a cache rebuild of its guild in flight:
\* the completion has been decoded, an earlier toggle has spawned a rebuild
\* that has fetched nothing yet, and the bot may be stopped at any time.
RebuildingCompletions ==
    { Directive(TargetId, b) \o v : b \in {BodyJoe, BodyPlain}, v \in {<<>>, BodyJoe} }

InitRebuilding ==
    /\ ev = MentionEvent(TRUE, <<>>)
    /\ channel_configs = RowsOfEvent(ev)
    /\ config = get_channel_config(ChannelIdOfEvent)
    /\ messages = <<PriorTurn, UserTurn>>
    /\ log = << Call("save", "user", 0, <<>>, TRUE), Call("history", "", 0, <<>>, TRUE),
                Typing, Call("complete", "", 0, <<>>, TRUE) >>
    /\ mention_cache \in {[g \in {} |-> <<>>]}
                         \cup { [g \in {GuildId} |-> l] : l \in CacheLists }
    /\ tasks = << Task(GuildId) >>
    /\ cache_lock = {}
    /\ handle = BotHandle
    /\ bots = <<"running">>
    /\ handle_lock = {}
    /\ ipc = <<>>
    /\ sessions = <<>>
    /\ guild_configs = NoGuildRows
    /\ final_replacements = <<>>
    /\ guild_config = get_guild_config(GuildId)
    /\ final_user_content = ContentPlain
    /\ image_attachments = <<>>
    /\ history = <<UserTurn>>
    /\ request = BuildTurns(<<UserTurn>>, <<>>, <<>>)
    /\ ai = "decoded"
    /\ completion \in RebuildingCompletions
    /\ content = completion
    /\ commands = extract_commands(completion)
    /\ idx = 1
    /\ actions_taken = <<>>
    /\ pc = "exec"
    /\ final_reply = <<>>
    /\ remaining = <<>>

NextRebuilding ==
    \/ ExecDirective
    \/ EmitReply
    \/ Report
    \/ SaveAssistant
    \/ RebuildFetch
    \/ RebuildLock
    \/ RebuildInsert
    \/ stop_discord_bot

SpecRebuilding == InitRebuilding /\ [][NextRebuilding]_vars


\* The handler of a guild message with image attachments, from the attachment
\* loop on, in a channel with stored conversations, next to the handlers of
\* other events of the channel.
OwnPrior ==
    Turn(GuildId, ChannelIdOfEvent, AuthorId, "user", <<"[","b","o","b","]",":"," ","q">>)
OwnReply ==
    Turn(GuildId, ChannelIdOfEvent, BotId, "assistant", <<"h","i"," ","b","o","b">>)
ElsewhereTurn ==
    Turn(GuildId, "c2", AuthorId, "user", <<"[","b","o","b","]",":"," ","x">>)

\* n exchanges of the author with the assistant
RECURSIVE Exchanges(_)
Exchanges(n) == IF n = 0 THEN <<>> ELSE <<OwnPrior, OwnReply>> \o Exchanges(n - 1)

StoreTails == { <<>>, <<PriorTurn>>, <<PriorTurn, OtherReply>>, <<ElsewhereTurn>> }

\* stores below the history window and stores that fill it
Stores == { Exchanges(n) \o tail : n \in {0, HistoryLimit \div 2}, tail \in StoreTails }

ImageEvent(atts) ==
    [is_self |-> FALSE, mentions_me |-> FALSE, content |-> ContentPlain,
     has_guild |-> TRUE, attachments |-> atts, mentions |-> <<>>]

InitHistory ==
    /\ pc = "attach"
    /\ \E atts \in {<<>>, <<AttImage>>, <<AttImage, AttImage>>} : ev = ImageEvent(atts)
    /\ \E shared \in BOOLEAN :
          channel_configs = [c \in {ChannelIdOfEvent} |->
                                [ListeningConfig EXCEPT !.shared_chat = shared]]
    /\ config = get_channel_config(ChannelIdOfEvent)
    /\ messages \in Stores
    /\ log = <<>>
    /\ mention_cache = [g \in {} |-> <<>>]
    /\ tasks = <<>>
    /\ cache_lock = {}
    /\ handle = BotHandle
    /\ bots = <<"running">>
    /\ handle_lock = {}
    /\ ipc = <<>>
    /\ sessions = <<>>
    /\ guild_configs = NoGuildRows
    /\ InitLocals

NextHistory ==
    \/ Attachments
    \/ SaveUser
    \/ OtherTurn
    \/ GetHistory
    \/ BuildContext
    \/ CallAI
    \/ ExecDirective
    \/ EmitReply
    \/ SendChunk
    \/ Report
    \/ SaveAssistant

SpecHistory == InitHistory /\ [][NextHistory]_vars

\* The reply emitter on visible texts around the two ceilings: the completion
\* is a visible text, or one directive followed by a visible text.
ChunkTexts == { <<>>, BodyPlain, LongText, Unbroken, Spaced, LongWord,
                Spaced \o Spaced, LongWord \o <<" ", "b">> }
ChunkCompletions ==
    { d \o v : d \in {<<>>, Directive(TargetId, BodyPlain)}, v \in ChunkTexts }

InitChunks ==
    /\ ev = PlainEvent(TRUE)
    /\ channel_configs = RowsOfEvent(ev)
    /\ config = get_channel_config(ChannelIdOfEvent)
    /\ messages = <<PriorTurn, UserTurn>>
    /\ log = << Call("save", "user", 0, <<>>, TRUE), Call("history", "", 0, <<>>, TRUE),
                Typing, Call("complete", "", 0, <<>>, TRUE) >>
    /\ mention_cache = [g \in {} |-> <<>>]
    /\ tasks = <<>>
    /\ cache_lock = {}
    /\ handle = BotHandle
    /\ bots = <<"running">>
    /\ handle_lock = {}
    /\ ipc = <<>>
    /\ sessions = <<>>
    /\ guild_configs = NoGuildRows
    /\ final_replacements = <<>>
    /\ guild_config = get_guild_config(GuildId)
    /\ final_user_content = ContentPlain
    /\ image_attachments = <<>>
    /\ history = <<UserTurn>>
    /\ request = BuildTurns(<<UserTurn>>, <<>>, <<>>)
    /\ ai = "decoded"
    /\ completion \in ChunkCompletions
    /\ content = completion
    /\ commands = extract_commands(completion)
    /\ idx = 1
    /\ actions_taken = <<>>
    /\ pc = IF commands = <<>> THEN "resolve" ELSE "exec"
    /\ final_reply = <<>>
    /\ remaining = <<>>

NextChunks ==
    \/ ExecDirective
    \/ EmitReply
    \/ SendChunk
    \/ Report
    \/ SaveAssistant

SpecChunks == InitChunks /\ [][NextChunks]_vars

\* The Conversation Store under the handler's saves, the saves of other
\* handlers and the two wipes; the store holds turns of two guilds.
ForeignTurn ==
    Turn(OtherGuildId, "c3", OtherUserId, "user", <<"[","a","l","]",":"," ","y","o">>)

WideStores == { <<>>, <<ForeignTurn>>, <<PriorTurn, ForeignTurn>>,
                <<PriorTurn, OtherReply, ElsewhereTurn, ForeignTurn>> }

InitStore ==
    /\ pc = "save_user"
    /\ ev = PlainEvent(TRUE)
    /\ channel_configs = RowsOfEvent(ev)
    /\ config = get_channel_config(ChannelIdOfEvent)
    /\ messages \in WideStores
    /\ log = <<>>
    /\ mention_cache = [g \in {} |-> <<>>]
    /\ tasks = <<>>
    /\ cache_lock = {}
    /\ handle = BotHandle
    /\ bots = <<"running">>
    /\ handle_lock = {}
    /\ ipc = <<>>
    /\ sessions = <<>>
    /\ guild_configs = NoGuildRows
    /\ final_user_content = ContentPlain
    /\ image_attachments = <<>>
    /\ history = <<>>
    /\ request = <<>>
    /\ ai = "none"
    /\ completion = <<>>
    /\ content = <<>>
    /\ commands = <<>>
    /\ idx = 0
    /\ actions_taken = <<>>
    /\ final_reply = <<>>
    /\ remaining = <<>>
    /\ final_replacements = <<>>
    /\ guild_config = NoGuildConfig

NextStore ==
    \/ SaveUser
    \/ OtherTurn
    \/ GetHistory
    \/ ClearMemory
    \/ ClearChannel

SpecStore == InitStore /\ [][NextStore]_vars

\* The handler of a guild message with text attachments below and at the size
\* cap, from the attachment loop to the decoded completion.
AttTextAtCap == [AttText EXCEPT !.size = TextCap]
TextAttachments == { <<AttText>>, <<AttTextAtCap>>, <<AttText, AttText>>,
                     <<AttTextAtCap, AttImage>> }

InitAttach ==
    /\ pc = "attach"
    /\ \E atts \in TextAttachments : ev = ImageEvent(atts)
    /\ channel_configs = RowsOfEvent(ev)
    /\ config = get_channel_config(ChannelIdOfEvent)
    /\ messages = <<PriorTurn>>
    /\ log = <<>>
    /\ mention_cache = [g \in {} |-> <<>>]
    /\ tasks = <<>>
    /\ cache_lock = {}
    /\ handle = BotHandle
    /\ bots = <<"running">>
    /\ handle_lock = {}
    /\ ipc = <<>>
    /\ sessions = <<>>
    /\ guild_configs = NoGuildRows
    /\ InitLocals

NextAttach ==
    \/ Attachments
    \/ SaveUser
    \/ GetHistory
    \/ BuildContext
    \/ CallAI

SpecAttach == InitAttach /\ [][NextAttach]_vars


\* The substitution on a guild whose member list holds a member named like
\* the numeric id of another member.
MemberTwo == User(<<"5">>, <<"2">>, None, None)
ApplyLists ==
    { rebuilt(r, FetchFailed, Fetched(TRUE, m)) :
          r \in RoleFetches, m \in { <<MemberJo, MemberTwo>>, <<MemberJo, MemberJoe>> } }

InitApply ==
    /\ ev = MentionEvent(TRUE, <<>>)
    /\ channel_configs = RowsOfEvent(ev)
    /\ config = get_channel_config(ChannelIdOfEvent)
    /\ messages = <<PriorTurn, UserTurn>>
    /\ log = << Call("save", "user", 0, <<>>, TRUE), Call("history", "", 0, <<>>, TRUE),
                Typing, Call("complete", "", 0, <<>>, TRUE) >>
    /\ mention_cache \in { [g \in {GuildId} |-> l] : l \in ApplyLists }
    /\ tasks = <<>>
    /\ cache_lock = {}
    /\ handle = BotHandle
    /\ bots = <<"running">>
    /\ handle_lock = {}
    /\ ipc = <<>>
    /\ sessions = <<>>
    /\ guild_configs = NoGuildRows
    /\ final_replacements = <<>>
    /\ guild_config = get_guild_config(GuildId)
    /\ final_user_content = ContentPlain
    /\ image_attachments = <<>>
    /\ history = <<UserTurn>>
    /\ request = BuildTurns(<<UserTurn>>, <<>>, <<>>)
    /\ ai = "decoded"
    /\ completion \in MentionCompletions
    /\ content = completion
    /\ commands = extract_commands(completion)
    /\ idx = 1
    /\ actions_taken = <<>>
    /\ pc = "exec"
    /\ final_reply = <<>>
    /\ remaining = <<>>

SpecApply == InitApply /\ [][NextDirectives]_vars

\* The desktop commands start, stop and status called at any time and in
\* any interleaving, from the state before the first start; a bot task may
\* end on its own.
InitBot ==
    /\ pc = "idle"
    /\ ev = NoEvent
    /\ channel_configs = NoRows
    /\ config = DefaultChannelConfig
    /\ messages = <<>>
    /\ log = <<>>
    /\ mention_cache = [g \in {} |-> <<>>]
    /\ tasks = <<>>
    /\ cache_lock = {}
    /\ handle = NoHandle
    /\ bots = <<>>
    /\ handle_lock = {}
    /\ ipc = <<>>
    /\ sessions = <<>>
    /\ guild_configs = NoGuildRows
    /\ InitLocals

NextBot ==
    \/ start_discord_bot
    \/ start_discord_bot_spawn
    \/ stop_discord_bot
    \/ get_discord_bot_status
    \/ BotEnds

SpecBot == InitBot /\ [][NextBot]_vars

\* Two settings sessions opened in the same channel, or in the channels of
\* two guilds; no channel has a row yet.
InitSessions ==
    /\ pc = "idle"
    /\ ev = NoEvent
    /\ channel_configs = NoRows
    /\ config = DefaultChannelConfig
    /\ messages = <<>>
    /\ log = <<>>
    /\ mention_cache = [g \in {} |-> <<>>]
    /\ tasks = <<>>
    /\ cache_lock = {}
    /\ handle = BotHandle
    /\ bots = <<"running">>
    /\ handle_lock = {}
    /\ ipc = <<>>
    /\ \E g \in Guilds : sessions = << Session(GuildId), Session(g) >>
    /\ guild_configs = NoGuildRows
    /\ InitLocals

NextSessions ==
    \/ ToggleRead
    \/ ToggleWrite

SpecSessions == InitSessions /\ [][NextSessions]_vars

\* ------------------------------------------------------------------------
\* Properties
\* ------------------------------------------------------------------------
LogIdx == DOMAIN log
SendsOf(kinds) == { i \in LogIdx : log[i].op = "send" /\ log[i].kind \in kinds }
CallsOf(ops) == { i \in LogIdx : log[i].op \in ops }

\* the trigger of the pipeline, as the channel's policy row states it
TriggerCondition ==
    /\ ~ev.is_self
    /\ \/ get_channel_config(ChannelIdOfEvent).is_listening
       \/ ev.mentions_me
       \/ /\ get_channel_config(ChannelIdOfEvent).listen_udin
          /\ contains(to_lowercase(ev.content), Keyword)

\* C1: an event that is authored by the bot, or for which neither the
\* listening flag, nor a mention of the bot, nor the enabled secondary
\* trigger with the keyword in the lower-cased content holds, makes the
\* handler return with no turn persisted and no collaborator call or send.
C1_TriggerGate ==
    (pc # "idle" /\ ~TriggerCondition)
        => (pc \in {"ok", "err"} /\ messages = <<PriorTurn>> /\ log = <<>>)

\* an event of another user with the keyword in a channel whose flags are
\* all off and without mention has been handled
C1_Witness ==
    /\ pc = "ok"
    /\ ~ev.is_self /\ ~ev.mentions_me
    /\ ev.content = ContentKeyword
    /\ ~TriggerCondition
    /\ log = <<>>

\* C2: an event whose content matches the lookup phrase followed by digits
\* persists no turn, fetches no history and makes no completion call; when it
\* was triggered and handled it made one player lookup and one send; and an
\* event that persists a turn or calls the completion makes no player lookup.
C2_LookupExclusive ==
    /\ (pc # "idle" /\ player_re(ev.content) # None)
          => CallsOf({"save", "history", "complete"}) = {}
    /\ (pc = "ok" /\ TriggerCondition /\ player_re(ev.content) # None)
          => /\ Cardinality(CallsOf({"lookup"})) = 1
             /\ Cardinality(CallsOf({"send"})) = 1
    /\ CallsOf({"save", "complete"}) # {} => CallsOf({"lookup"}) = {}

\* C3: the directive sends are issued in reverse textual order: of two
\* directive sends, the earlier one belongs to the later-appearing directive.
C3_ReverseOrder ==
    \A i \in SendsOf({"directive"}), j \in SendsOf({"directive"}) :
        i < j => log[i].ref > log[j].ref

\* two directives of one completion have both been sent
C3_Witness ==
    \E i \in SendsOf({"directive"}), j \in SendsOf({"directive"}) :
        i < j /\ log[i].ref = 2 /\ log[j].ref = 1

\* the characters of t from position p on that lie in no range of cmds
RECURSIVE OutsideSpans(_, _, _)
OutsideSpans(t, p, cmds) ==
    IF p > Len(t) THEN <<>>
    ELSE (IF \E k \in 1..Len(cmds) : cmds[k].range[1] <= p /\ p < cmds[k].range[2]
          THEN <<>> ELSE <<t[p]>>)
         \o OutsideSpans(t, p + 1, cmds)

\* C4: when the directive loop is over, the visible text is the completion
\* text without the characters of the matched spans, all others in order.
C4_SpansDeleted ==
    pc = "resolve" => content = OutsideSpans(completion, 1, commands)

\* a completion with text before, between or after two or more directives
\* has gone through the loop
C4_Witness ==
    /\ pc = "resolve"
    /\ Len(commands) >= 2
    /\ content # <<>>
    /\ commands[1].range[1] > 1

\* C5: extraction on the text left after the loop finds no directive.
C5_StripIdempotent ==
    pc = "resolve" => extract_commands(content) = <<>>

\* C6: once the directive loop is left, every directive of the completion
\* has exactly one recorded outcome.
C6_OneOutcomeEach ==
    pc # "exec" => Len(actions_taken) = Len(commands)

\* C7: the channel listing is fetched only for targets that are neither a
\* channel-mention token nor a bare number; a token or number is the
\* destination itself; any other destination is a listed channel of that
\* name, found in a listing fetched for that directive.
C7_ResolutionOrder ==
    \A i \in LogIdx :
        /\ (log[i].op = "channels" /\ log[i].kind = "")
              => id_re(commands[log[i].ref].target) = None
        /\ (log[i].op = "send" /\ log[i].kind = "directive") =>
              LET target == commands[log[i].ref].target
              IN  IF id_re(target) # None
                  THEN log[i].dest = StripZeros(id_re(target))
                  ELSE /\ \E ch \in GuildChannels :
                            /\ ch.id = log[i].dest
                            /\ to_lowercase(ch.name) = to_lowercase(trim_start_hash(target))
                       /\ \E j \in 1..(i - 1) :
                            /\ log[j].op = "channels" /\ log[j].kind = ""
                            /\ log[j].ref = log[i].ref

DirectiveSent(k) ==
    \E i \in SendsOf({"directive"}) : log[i].ref = k /\ log[i].ok

\* C8: when the handler has returned after a decoded completion: no report
\* or confirmation with zero directives, exactly one confirmation when every
\* directive was sent, exactly one report when one was not.
C8_OutcomeReporting ==
    (pc \in {"ok", "err"} /\ ai = "decoded") =>
        /\ commands = <<>> => SendsOf({"report", "confirm"}) = {}
        /\ (commands # <<>> /\ \A k \in 1..Len(commands) : DirectiveSent(k))
              => /\ Cardinality(SendsOf({"confirm"})) = 1
                 /\ SendsOf({"report"}) = {}
        /\ (\E k \in 1..Len(commands) : ~DirectiveSent(k))
              => /\ Cardinality(SendsOf({"report"})) = 1
                 /\ SendsOf({"confirm"}) = {}

\* the user turn of the event, attributed to a display name
AttributedTurn(name) ==
    Turn(GuildId, ChannelIdOfEvent, AuthorId, "user",
         <<"[">> \o name \o <<"]", ":", " ">> \o ev.content)

UserTurnStored ==
    \E name \in {AuthorName, AuthorNick}, i \in DOMAIN messages :
        messages[i] = AttributedTurn(name)

\* C9: a completion call is preceded by the save of the user turn, and from
\* the completion call on, whatever its outcome, the store holds the turn
\* '[author_display_name]: content' of the event.
C9_UserTurnFirst ==
    /\ \A i \in CallsOf({"complete"}) :
          \E j \in 1..(i - 1) : log[j].op = "save" /\ log[j].kind = "user"
    /\ (pc = "call_ai" \/ ai # "none") => UserTurnStored

\* the completion call has failed and the handler has returned
C9_Witness ==
    /\ Ended
    /\ ai \in {"transport", "status", "unavailable"}
    /\ UserTurnStored

\* C10: after a failed completion call (transport error, non-success status,
\* service not running) the handler has returned, having sent exactly one
\* apology, no directive, and having persisted no assistant turn.
C10_FailureApology ==
    ai \in {"transport", "status", "unavailable"} =>
        /\ pc \in {"ok", "err"}
        /\ Cardinality(SendsOf({"apology", "unavailable"})) = 1
        /\ Cardinality(CallsOf({"send"})) = 1
        /\ \A i \in LogIdx : ~(log[i].op = "save" /\ log[i].kind = "assistant")
        /\ \A i \in DOMAIN messages : messages[i].role # "assistant"

\* each kind of failure has been handled
C10_Witness ==
    /\ pc = "ok"
    /\ ai = "unavailable"
    /\ Cardinality(SendsOf({"unavailable"})) = 1

\* C11: after a completion response with a success status whose body cannot
\* be decoded, or that carries no text at choices[0].message.content, the
\* generic apology has been sent and no assistant turn is persisted.
C11_MalformedApology ==
    ai \in {"decode_err", "no_content"} =>
        /\ Cardinality(SendsOf({"apology"})) = 1
        /\ \A i \in DOMAIN messages : messages[i].role # "assistant"

\* C12: the log of an event holds at most one completion request.
C12_NoRetry == Cardinality(CallsOf({"complete"})) <= 1

\* the completion call met a transport error and the handler has returned
C12_Witness ==
    /\ Ended
    /\ ai = "transport"
    /\ \E i \in CallsOf({"complete"}) : ~log[i].ok

AssistantTurns == { i \in DOMAIN messages : messages[i].role = "assistant" }

\* C13: when the handler has returned after a decoded completion, and the
\* store did not refuse the save, exactly one assistant turn is persisted:
\* the trimmed visible text, followed by a newline and the bracketed report
\* of the outcomes joined by ", " when a directive ran.
C13_AssistantTurn ==
    ( /\ pc \in {"ok", "err"}
      /\ ai = "decoded"
      /\ \A i \in LogIdx : ~(log[i].op = "save" /\ log[i].kind = "assistant" /\ ~log[i].ok) )
    => /\ Cardinality(AssistantTurns) = 1
       /\ \A i \in AssistantTurns :
             messages[i].content =
                IF commands = <<>> THEN trim(content)
                ELSE trim(content) \o <<"\n">>
                     \o <<"[","S","y","s","t","e","m"," ","R","e","p","o","r","t",":"," ">>
                     \o join(actions_taken, <<","," ">>) \o <<"]">>

\* ---- the mention substitution, as observed on the handler's state ----
\* the last directive the loop has executed, when there is one
LastRef == rev_index(Len(commands), idx - 1)
LastSends ==
    IF 1 < idx /\ idx <= Len(commands) + 1 /\ commands # <<>>
    THEN { i \in SendsOf({"directive"}) : log[i].ref = LastRef }
    ELSE {}

FallbackCallsOf(ref) ==
    { i \in LogIdx : log[i].kind = "fallback" /\ log[i].ref = ref }

\* the substitutions that have taken place: the source text, the list that
\* was applied and the result, for the body of the last directive sent and,
\* once the reply step is over, for the visible text
BodyApplications ==
    { [src |-> commands[log[i].ref].msg, reps |-> final_replacements,
       out |-> log[i].text] : i \in LastSends }

VisibleApplications ==
    IF /\ pc \in {"report", "persist", "ok"}
       /\ ev.has_guild /\ GuildId \in DOMAIN mention_cache
       /\ \E c \in {"@", "#"} : contains(OutsideSpans(completion, 1, commands), <<c>>)
    THEN { [src |-> OutsideSpans(completion, 1, commands),
            reps |-> mention_cache[GuildId], out |-> content] }
    ELSE {}

Applications == BodyApplications \cup VisibleApplications

\* the text is one mention: it opens with the marker and holds no other
\* marker and no token
SingleMention(src) ==
    /\ src # <<>>
    /\ src[1] = "@"
    /\ \A p \in 2..Len(src) : src[p] \notin {"@", "#", "<"}

\* the entries whose pattern the text opens with, letter case ignored
Matching(app) ==
    { k \in 1..Len(app.reps) :
        /\ app.reps[k].pattern # <<>>
        /\ StartsWithAt(to_lowercase(app.src), 1, to_lowercase(app.reps[k].pattern)) }

\* the first of the longest of them
Longest(app) ==
    CHOOSE k \in Matching(app) :
        \A j \in Matching(app) :
            \/ Len(app.reps[j].pattern) < Len(app.reps[k].pattern)
            \/ (Len(app.reps[j].pattern) = Len(app.reps[k].pattern) /\ k <= j)

FollowedByWord(app, k) == IsWordAt(app.src, Len(app.reps[k].pattern) + 1)

Leftover(app, k) == Slice(app.src, Len(app.reps[k].pattern) + 1, Len(app.src) + 1)

\* C15: where the list holds a pattern and a longer pattern it is a proper
\* prefix of, and the text is the longer pattern as a whole mention, the
\* result is the longer pattern's token there, and not the shorter
\* pattern's token followed by the characters left over.
C15_LongestMatch ==
    \A app \in Applications :
        (SingleMention(app.src) /\ Matching(app) # {}) =>
            LET k == Longest(app)
            IN  \A j \in Matching(app) :
                  ( /\ Len(app.reps[j].pattern) < Len(app.reps[k].pattern)
                    /\ ~FollowedByWord(app, k) )
                  => /\ app.out = app.reps[k].value \o Leftover(app, k)
                     /\ app.out # app.reps[j].value \o Leftover(app, j)

\* C16: a pattern is not replaced where a word character follows it (it is
\* the prefix of a longer name), and it is replaced by its token where a
\* non-word character or the end of the text follows it.
C16_Boundary ==
    \A app \in Applications :
        (SingleMention(app.src) /\ Matching(app) # {}) =>
            /\ (\A k \in Matching(app) : FollowedByWord(app, k)) => app.out = app.src
            /\ ~FollowedByWord(app, Longest(app)) =>
                  app.out = app.reps[Longest(app)].value \o Leftover(app, Longest(app))

\* C17 (as stated): a directive body without '@' is delivered as it is; a
\* body with '@' is delivered after the mention substitution: through the
\* cached list of the event's guild when the cache has an entry for it, and
\* otherwise through the fallback list, which is fetched only then.
C17_BodySubstituted ==
    \A i \in SendsOf({"directive"}) :
        LET msg == commands[log[i].ref].msg
            cached == ev.has_guild /\ GuildId \in DOMAIN mention_cache
        IN  /\ ~contains(msg, <<"@">>) =>
                 log[i].text = msg /\ FallbackCallsOf(log[i].ref) = {}
            /\ (contains(msg, <<"@">>) /\ cached) =>
                 /\ log[i].text = apply_replacements(msg, mention_cache[GuildId])
                 /\ FallbackCallsOf(log[i].ref) = {}
            /\ (contains(msg, <<"@">>) /\ ~cached) =>
                 /\ FallbackCallsOf(log[i].ref) # {}
                 /\ i \in LastSends =>
                      log[i].text = apply_replacements(msg, final_replacements)

\* C17 (amended): a directive body without '@' is delivered as it is; in an
\* event of a guild, a body with '@' is delivered with the guild's cached list
\* applied when the cache has an entry for the guild, and then nothing is
\* fetched for a fallback; the fallback is fetched and applied exactly when
\* the body has '@' and the cache has no entry for the guild; in an event
\* without a guild the body is delivered as it is and nothing is fetched.
C17_BodyResolution ==
    \A i \in SendsOf({"directive"}) :
        LET msg == commands[log[i].ref].msg
            cached == GuildId \in DOMAIN mention_cache
        IN  /\ ~contains(msg, <<"@">>) =>
                 log[i].text = msg /\ FallbackCallsOf(log[i].ref) = {}
            /\ (contains(msg, <<"@">>) /\ ev.has_guild /\ cached) =>
                 /\ log[i].text = apply_replacements(msg, mention_cache[GuildId])
                 /\ FallbackCallsOf(log[i].ref) = {}
            /\ (contains(msg, <<"@">>) /\ ev.has_guild /\ ~cached) =>
                 /\ FallbackCallsOf(log[i].ref) # {}
                 /\ i \in LastSends =>
                      log[i].text = apply_replacements(msg, final_replacements)
            /\ ~ev.has_guild =>
                 log[i].text = msg /\ FallbackCallsOf(log[i].ref) = {}

\* a body with a mention was delivered through a cached list that does not
\* hold the mentioned member (a stale entry), so the mention was left as it is
C17_Witness ==
    \E i \in SendsOf({"directive"}) :
        /\ commands[log[i].ref].msg = BodyJoe
        /\ GuildId \in DOMAIN mention_cache
        /\ \A k \in 1..Len(mention_cache[GuildId]) :
              mention_cache[GuildId][k].pattern # BodyJoe
        /\ log[i].text = BodyJoe
        /\ log[i].ok

\* the entries the fallback may hold: one per role, and one per name of each
\* tagged user and of the author
FallbackEntries ==
    { Replacement(<<"@">> \o GuildRoles[k].name,
                  <<"<","@","&">> \o GuildRoles[k].id \o <<">">>) : k \in 1..Len(GuildRoles) }
    \cup UNION { { Replacement(<<"@">> \o n, <<"<","@">> \o u.id \o <<">">>) :
                     n \in {u.name, u.global_name, u.nick} \ {None} } :
                   u \in { users_to_check(ev)[k] : k \in 1..Len(users_to_check(ev)) } }

\* C18: the list built on a cache miss holds only entries of the roles, of
\* the tagged users and of the author, and no member listing is fetched.
C18_FallbackScope ==
    /\ \A i \in LogIdx : log[i].op # "members"
    /\ \A i \in LastSends :
          FallbackCallsOf(log[i].ref) # {} =>
              \A k \in 1..Len(final_replacements) :
                  final_replacements[k] \in FallbackEntries

\* C14 (as stated): the entries of every guild of the cache are in strictly
\* descending order of pattern length.
C14_StrictlyDescending ==
    \A g \in DOMAIN mention_cache :
        \A k \in 1..(Len(mention_cache[g]) - 1) :
            Len(mention_cache[g][k].pattern) > Len(mention_cache[g][k + 1].pattern)

\* C14 (amended): the entries of every guild of the cache are in descending
\* order of pattern length, patterns of equal length being allowed next to
\* each other: no entry is shorter than the entry after it.
C14_Descending ==
    \A g \in DOMAIN mention_cache :
        \A k \in 1..(Len(mention_cache[g]) - 1) :
            Len(mention_cache[g][k].pattern) >= Len(mention_cache[g][k + 1].pattern)

\* a rebuild has inserted a list with patterns of equal and of different
\* lengths
C14_Witness ==
    \E g \in DOMAIN mention_cache :
        \E j \in 1..Len(mention_cache[g]), k \in 1..Len(mention_cache[g]) :
            /\ j + 1 < k
            /\ Len(mention_cache[g][j].pattern) = Len(mention_cache[g][j + 1].pattern)
            /\ Len(mention_cache[g][j].pattern) > Len(mention_cache[g][k].pattern)

\* the stored flag of the channel that the toggle of custom_id is about
FlagOf(rows, g, custom_id) ==
    LET cfg == IF ChannelOf(g) \in DOMAIN rows THEN rows[ChannelOf(g)]
               ELSE DefaultChannelConfig
    IN  IF custom_id = "toggle_listen" THEN cfg.is_listening
        ELSE IF custom_id = "toggle_shared" THEN cfg.shared_chat
        ELSE cfg.listen_udin

\* C19: a step starts a rebuild exactly when it is a toggle of the listening
\* flag or of the secondary-trigger flag that turns the stored flag from off
\* to on; the rebuild is for the guild of the toggle, and in that same step
\* the toggle has updated the settings message while the rebuild has fetched
\* nothing yet and the cache is as it was.
C19_RebuildTrigger ==
    [][ LET turned_on ==
              { <<g, c>> \in Guilds \X {"toggle_listen", "toggle_udin"} :
                    ~FlagOf(channel_configs, g, c) /\ FlagOf(channel_configs', g, c) }
        IN  /\ Len(tasks') \in {Len(tasks), Len(tasks) + 1}
            /\ Len(tasks') = Len(tasks) + 1 <=> turned_on # {}
            /\ Len(tasks') = Len(tasks) + 1 =>
                  /\ \A k \in 1..Len(tasks) : tasks'[k] = tasks[k]
                  /\ tasks'[Len(tasks')].pc = "fetch"
                  /\ \E gc \in turned_on : tasks'[Len(tasks')].guild = gc[1]
                  /\ Len(log') = Len(log) + 1
                  /\ log'[Len(log')].op = "menu"
                  /\ mention_cache' = mention_cache
      ]_vars

\* the listening flag was turned on, which started a rebuild, then turned
\* off, which started none, and the rebuild has not inserted its list yet
C19_Witness ==
    /\ Len(log) = 2
    /\ log[1].op = "menu" /\ log[1].kind = "toggle_listen" /\ log[1].ref = 1
    /\ log[2].op = "menu" /\ log[2].kind = "toggle_listen" /\ log[2].ref = 0
    /\ log[1].dest = log[2].dest
    /\ Len(tasks) = 1
    /\ tasks[1].pc # "done"

\* the two lists hold the same entries, each as many times
SameEntries(a, b) ==
    /\ Len(a) = Len(b)
    /\ \A i \in 1..Len(a) :
          Cardinality({ j \in 1..Len(a) : a[j] = a[i] })
              = Cardinality({ j \in 1..Len(b) : b[j] = a[i] })

\* C20: the cache changes only in the step in which a rebuild completes, and
\* then the entry of the rebuild's guild holds exactly the entries that this
\* rebuild fetched, and the entry of every other guild is as it was.
C20_WholesaleSwap ==
    [][ mention_cache' # mention_cache =>
          \E k \in 1..Len(tasks) :
              /\ tasks[k].pc = "insert" /\ tasks'[k].pc = "done"
              /\ DOMAIN mention_cache' = DOMAIN mention_cache \cup {tasks[k].guild}
              /\ SameEntries(mention_cache'[tasks[k].guild], tasks[k].new_replacements)
              /\ \A g \in DOMAIN mention_cache :
                    g # tasks[k].guild => mention_cache'[g] = mention_cache[g]
      ]_vars

\* two rebuilds of one guild have completed with different lists, and the
\* cache holds the list of one of them and nothing of the other
C20_Witness ==
    /\ Len(tasks) = 2
    /\ tasks[1].pc = "done" /\ tasks[2].pc = "done"
    /\ tasks[1].guild = tasks[2].guild
    /\ tasks[1].new_replacements # <<>>
    /\ \A i \in 1..Len(tasks[1].new_replacements), j \in 1..Len(tasks[2].new_replacements) :
          tasks[1].new_replacements[i] # tasks[2].new_replacements[j]
    /\ mention_cache[tasks[1].guild] = tasks[2].new_replacements

\* ------------------------------------------------------------------------
\* C21-C30
\* ------------------------------------------------------------------------
\* a rebuild task that has not yet made all its fetches
Fetching(k) == tasks[k].pc = "fetch"

\* the write guard is held by task k
Writing(k) == k \in cache_lock

\* C21: the mention-cache lock is never held across a collaborator call.
\* The handler holds no read guard in any state between its steps, and so
\* at none of its calls; a write guard is held only by a rebuild task that
\* has made all its fetches and is about to insert; while the rebuilds in
\* flight are fetching or waiting, a reader is not kept waiting, and what a
\* handler step reads is the entry of the guild before the step, or nothing
\* (and then the fallback list).
C21_LockDiscipline ==
    /\ [](Reader \notin cache_lock)
    /\ [](\A k \in cache_lock \ {Reader} :
              k \in 1..Len(tasks) /\ tasks[k].pc = "insert")
    /\ []((\A k \in 1..Len(tasks) : tasks[k].pc # "insert") => can_read(cache_lock))
    /\ [][ \A k \in 1..Len(tasks) :
              Fetching(k) /\ ~Fetching(k)' => ~Writing(k) /\ ~Writing(k)' ]_vars
    /\ [][ mention_cache' # mention_cache =>
              \E k \in 1..Len(tasks) : Writing(k) /\ tasks[k].pc = "insert"
                                          /\ tasks'[k].pc = "done" ]_vars
    /\ [][ pc = "exec" /\ idx' # idx
            /\ resolves_mentions(commands[rev_index(Len(commands), idx)].msg, ev) =>
              IF GuildId \in DOMAIN mention_cache
              THEN final_replacements' = mention_cache[GuildId]
              ELSE \E f \in FallbackFetches(ev) :
                      final_replacements' = local_generated(ev, f) ]_vars

\* a directive with a mention has been delivered while the rebuild of the
\* guild was still fetching, and another state has the write guard held
\* while the handler is between two steps
C21_Witness ==
    /\ pc = "resolve"
    /\ \E i \in LogIdx : log[i].op = "send" /\ log[i].kind = "directive"
                          /\ contains(commands[1].msg, <<"@">>)
    /\ \E k \in 1..Len(tasks) : tasks[k].pc = "insert" /\ Writing(k)

\* C22: once stop_discord_bot has returned, no rebuild task performs a
\* further fetch or writes the cache.
C22_RebuildsAborted ==
    [][ handle = NoHandle => tasks' = tasks /\ mention_cache' = mention_cache ]_vars

\* the assistant replies stored in answer to a user
RepliesTo(user) == IF user = AuthorId THEN {OwnReply} ELSE {OtherReply}

\* a stored turn is in the scope of the requesting user
InScope(r) ==
    /\ r.channel_id = ChannelIdOfEvent
    /\ \/ config.shared_chat
       \/ r.user_id = AuthorId
       \/ r \in RepliesTo(AuthorId)

\* the last n elements of a sequence
LastN(s, n) == IF Len(s) <= n THEN s ELSE SubSeq(s, Len(s) - n + 1, Len(s))

\* C23: the history handed to the model is the at most 20 most recent turns
\* of the channel that are in scope, oldest first; in a channel without
\* shared scope only the requesting user's own turns and the assistant
\* replies to that user are in scope.
C23_ScopedHistory ==
    pc = "context" => history = LastN(SelectSeq(messages, InScope), HistoryLimit)

\* the user turn this event saved: the last user turn of its author
OwnTurn ==
    messages[CHOOSE i \in 1..Len(messages) :
                /\ messages[i].user_id = AuthorId /\ messages[i].role = "user"
                /\ \A j \in (i + 1)..Len(messages) :
                      ~(messages[j].user_id = AuthorId /\ messages[j].role = "user")]

\* C24: with image attachments, the turn of the request that is rewritten
\* into a parts list is the user turn this event saved, and there is one.
C24_ImagesOnOwnTurn ==
    pc = "call_ai" /\ image_attachments # <<>> =>
        /\ \E i \in 1..Len(request) : request[i].parts
        /\ \A i \in 1..Len(request) :
              request[i].parts => request[i].text = OwnTurn.content

\* the entries a step adds to the log
NewCalls == SubSeq(log', Len(log) + 1, Len(log'))

\* the visible-text messages sent so far
VisibleSends ==
    { i \in LogIdx : log[i].op = "send" /\ log[i].kind \in {"ack", "reply", "chunk"} }

\* C25: the reply emitter picks exactly one mode from the trimmed visible
\* text T: one acknowledgement when T is empty and no directive ran, no
\* visible message when T is empty and a directive ran, one plain reply
\* carrying T when T is not empty and at most 2000 long, and otherwise rich
\* chunks only.
C25_OneMode ==
    /\ [][ pc = "resolve" /\ pc' # "resolve" =>
             LET T == final_reply'
             IN  /\ T = trim(content')
                 /\ IF T = <<>> /\ actions_taken = <<>>
                    THEN /\ Len(NewCalls) = 1 /\ NewCalls[1].kind = "ack"
                         /\ NewCalls[1].op = "send" /\ pc' # "chunk"
                    ELSE IF T = <<>>
                    THEN NewCalls = <<>> /\ pc' # "chunk"
                    ELSE IF Len(T) <= PlainCeiling
                    THEN /\ Len(NewCalls) = 1 /\ NewCalls[1].kind = "reply"
                         /\ NewCalls[1].op = "send" /\ NewCalls[1].text = T
                         /\ pc' # "chunk"
                    ELSE NewCalls = <<>> /\ pc' = "chunk" ]_vars
    /\ [][ pc = "chunk" =>
             /\ Len(final_reply) > PlainCeiling
             /\ \A k \in 1..Len(NewCalls) :
                   NewCalls[k].op = "send" /\ NewCalls[k].kind = "chunk" ]_vars
    /\ [][ pc \notin {"resolve", "chunk"} =>
             \A k \in 1..Len(NewCalls) :
                ~(NewCalls[k].op = "send" /\ NewCalls[k].kind \in {"ack", "reply", "chunk"}) ]_vars

\* a directive ran, nothing visible was left, and the handler has returned
\* without a visible-text message
C25_Witness ==
    /\ pc = "ok"
    /\ final_reply = <<>>
    /\ actions_taken # <<>>
    /\ VisibleSends = {}

\* the chunks the loop emits for the text t, up to and including the first
\* empty chunk (after an empty chunk the remaining text is what it was, and
\* every later chunk is empty too)
RECURSIVE chunks_of(_)
chunks_of(t) ==
    IF t = <<>> THEN <<>>
    ELSE LET k == split_idx(t)
         IN  IF k = 1 THEN << <<>> >>
             ELSE << Slice(t, 1, k) >> \o chunks_of(Slice(t, k, Len(t) + 1))

\* the texts of the chunk sends issued so far, in order
RECURSIVE ChunksSent(_)
ChunksSent(n) ==
    IF n = 0 THEN <<>>
    ELSE ChunksSent(n - 1) \o
         (IF log[n].op = "send" /\ log[n].kind = "chunk" THEN << log[n].text >> ELSE <<>>)

\* C26: for a visible text longer than the plain ceiling, the chunks the
\* loop emits, concatenated in emission order, are the text; the chunks sent
\* are these chunks in order; and no chunk is longer than 4000.
C26_ChunksReconstruct ==
    pc = "chunk" =>
        LET cs == chunks_of(final_reply)
            sent == ChunksSent(Len(log))
        IN  /\ Flatten(cs) = final_reply
            /\ \A k \in 1..Len(cs) : Len(cs[k]) <= RichCeiling
            /\ Len(sent) <= Len(cs) /\ sent = SubSeq(cs, 1, Len(sent))

\* C27: every iteration of the chunk loop emits a non-empty chunk and
\* strictly shortens the remaining text.
C27_ChunkProgress ==
    [][ pc = "chunk" /\ log' # log =>
          /\ NewCalls[1].text # <<>>
          /\ NewCalls[1].ok => Len(remaining') < Len(remaining) ]_vars

\* C28: the policy reads do not fail on a missing row.  For a channel
\* without a row the handler's config is the record with is_listening,
\* shared_chat and listen_udin all false, and the event is processed only
\* when it mentions the bot; for a guild without a row the handler's
\* guild_config is the default models and prompt.
C28_DefaultsOnMissingRow ==
    /\ [][ pc = "idle" /\ pc' \notin {"idle", "err"} /\ ~ev'.is_self
           /\ ChannelIdOfEvent \notin DOMAIN channel_configs =>
             /\ config' = [is_listening |-> FALSE, shared_chat |-> FALSE,
                           listen_udin |-> FALSE]
             /\ pc' # "ok" => ev'.mentions_me ]_vars
    /\ [][ pc = "history" /\ pc' = "context" /\ GuildId \notin DOMAIN guild_configs =>
             guild_config' = [chat_model |-> "gemini-2.5-flash",
                              image_model |-> "gemini-3-pro-image",
                              system_prompt |-> "You are a helpful assistant."] ]_vars

\* an event that mentions the bot in a channel and a guild without rows has
\* been processed up to the history read
C28_Witness ==
    /\ pc = "context"
    /\ ChannelIdOfEvent \notin DOMAIN channel_configs
    /\ GuildId \notin DOMAIN guild_configs
    /\ ev.mentions_me
    /\ guild_config = DefaultGuildConfig
    /\ ~config.is_listening

\* a step appends one turn and leaves the stored turns as they are
Appends == \E r \in {messages'[Len(messages')]} : messages' = Append(messages, r)

\* a step removes exactly the turns of one guild
WipesGuild ==
    \E g \in Guilds :
        LET Stays(r) == r.guild_id # g IN messages' = SelectSeq(messages, Stays)

\* a step removes exactly the turns of one channel
WipesChannel ==
    \E c \in Channels :
        LET Stays(r) == r.channel_id # c IN messages' = SelectSeq(messages, Stays)

\* C29 (as claimed): the store changes only by the append of a turn or by
\* the wipe of a guild, which removes exactly the turns of that guild.
C29_AppendOrGuildWipe ==
    [][ messages' # messages =>
          \/ Len(messages') = Len(messages) + 1 /\ Appends
          \/ WipesGuild ]_vars

\* C29 (amended): the store changes only by the append of a turn, by the
\* wipe of a guild, which removes exactly the turns of that guild, or by the
\* wipe of a channel, which removes exactly the turns of that channel.
C29_AppendOrWipe ==
    [][ messages' # messages =>
          \/ Len(messages') = Len(messages) + 1 /\ Appends
          \/ WipesGuild
          \/ WipesChannel ]_vars

\* the guild of the event has been wiped after the handler's save, and the
\* turn of the other guild is still stored
C29_Witness ==
    /\ pc = "history"
    /\ messages = <<ForeignTurn>>

\* the calls of a sequence of calls with the given op
RECURSIVE OfOp(_, _)
OfOp(calls, op) ==
    IF calls = <<>> THEN <<>>
    ELSE (IF Head(calls).op = op THEN <<Head(calls)>> ELSE <<>>) \o OfOp(Tail(calls), op)

\* C30: the outbound operations of an event are independent.  When the
\* saved turn is rewritten, every image is downloaded whatever the result of
\* the downloads before it, the parts list holds the images that were
\* downloaded, and the handler goes on to the completion call; a directive
\* whose send failed is followed by the next directive, or by the visible
\* reply, as one whose send succeeded; and a handler that returns Ok after a
\* decoded completion has saved the assistant turn.
C30_Independent ==
    /\ [][ pc = "context" /\ pc' # pc /\ rewrites(history, image_attachments) =>
             LET dl == OfOp(NewCalls, "download")
             IN  /\ Len(dl) = Len(image_attachments)
                 /\ \A k \in 1..Len(dl) : dl[k].ref = k
                 /\ Len(request'[Len(request')].images)
                       = Cardinality({ k \in 1..Len(dl) : dl[k].ok })
                 /\ pc' \in {"call_ai", "panic"} ]_vars
    /\ [](ai \notin {"none", "unavailable"} =>
             \E i \in LogIdx : log[i].op = "complete")
    /\ [][ pc = "exec" /\ (\E k \in 1..Len(NewCalls) :
                              NewCalls[k].op = "send" /\ ~NewCalls[k].ok) =>
             LET cmd == commands[rev_index(Len(commands), idx)]
             IN  IF replace_range_panics(content, cmd.range)
                 THEN pc' = "panic"
                 ELSE /\ idx' = idx + 1
                      /\ pc' = IF idx' > Len(commands) THEN "resolve" ELSE "exec" ]_vars
    /\ [](pc = "ok" /\ ai = "decoded" =>
             \E i \in LogIdx : log[i].op = "save" /\ log[i].kind = "assistant" /\ log[i].ok)

\* the first image failed and the second was embedded, the completion was
\* requested, the first directive executed failed and the next was sent, and
\* the handler has returned Ok with the assistant turn saved
C30_Witness ==
    /\ pc = "ok"
    /\ \E i, j \in LogIdx :
          /\ log[i].op = "download" /\ log[i].ref = 1 /\ ~log[i].ok
          /\ log[j].op = "download" /\ log[j].ref = 2 /\ log[j].ok
    /\ \E i \in 1..Len(request) : request[i].parts /\ Len(request[i].images) = 1
    /\ \E i \in LogIdx : log[i].op = "complete"
    /\ \E i, j \in LogIdx :
          /\ i < j
          /\ log[i].op = "send" /\ log[i].kind = "directive" /\ ~log[i].ok
          /\ log[j].op = "send" /\ log[j].kind = "directive" /\ log[j].ok
    /\ \E i \in LogIdx : log[i].op = "send" /\ log[i].kind = "reply" /\ log[i].ok
    /\ \E i \in LogIdx : log[i].op = "save" /\ log[i].kind = "assistant" /\ log[i].ok

\* ------------------------------------------------------------------------
\* C31-C40
\* ------------------------------------------------------------------------
\* the calls the step appends to the log
Appended == SubSeq(log', Len(log) + 1, Len(log'))

\* the fenced blocks of the text downloads that succeeded, in order
RECURSIVE Blocks(_)
Blocks(calls) ==
    IF calls = <<>> THEN <<>>
    ELSE (IF Head(calls).op = "download" /\ Head(calls).ok
          THEN FencedBlock(FileName, FileText) ELSE <<>>) \o Blocks(Tail(calls))

\* C31: text-attachment failures degrade silently: the attachment loop over
\* text attachments that fail to download or are at or above the size cap
\* adds the fenced blocks of the successful downloads only, goes on to the
\* persistence of the user turn, and sends no message to the user.
C31_SilentDegradation ==
    [][pc = "attach" /\ pc' # "attach" =>
          /\ pc' = "save_user"
          /\ final_user_content' = ev.content \o Blocks(Appended)
          /\ \A i \in 1..Len(Appended) : Appended[i].op # "send"]_vars

\* C32: failures stay inside the event being handled: no step of the handler,
\* whether it goes on, returns an error or panics, changes the mention cache,
\* the guild policy or the channel policy; the Conversation Store is the only
\* shared state it changes, and each change appends one turn to it.
C32_FailuresIsolated ==
    [][/\ mention_cache' = mention_cache
       /\ channel_configs' = channel_configs
       /\ guild_configs' = guild_configs
       /\ \/ messages' = messages
          \/ /\ Len(messages') = Len(messages) + 1
             /\ SubSeq(messages', 1, Len(messages)) = messages]_vars

\* an event failed after its user turn was stored, in a configured guild
C32_Witness ==
    /\ pc = "err"
    /\ Len(messages) = 2
    /\ channel_configs # NoRows
    /\ guild_configs # NoGuildRows
    /\ \E i \in LogIdx : log[i].op = "send" /\ ~log[i].ok

\* the place of a logged call in the order of the externally visible steps
\* of an AI-path event (0: the call is none of them)
Step(c) ==
    IF c.op = "save" /\ c.kind = "user" THEN 1
    ELSE IF c.op = "history" THEN 2
    ELSE IF c.op = "complete" THEN 3
    ELSE IF c.op = "send" /\ c.kind = "directive" THEN 4
    ELSE IF c.op = "send" /\ c.kind \in {"reply", "ack", "chunk"} THEN 5
    ELSE IF c.op = "send" /\ c.kind \in {"report", "confirm"} THEN 6
    ELSE IF c.op = "save" /\ c.kind = "assistant" THEN 7
    ELSE 0

\* C33: within one event the externally visible steps happen in a fixed
\* order: user turn persisted, history fetched, completion call, directive
\* sends, visible reply or chunks, outcome report, assistant turn persisted.
\* Only directive sends and chunks repeat; no directive send follows the
\* visible reply, and the assistant turn is persisted after the replies: after
\* the outcome report whenever a directive was sent.
C33_StepOrder ==
    /\ \A i, j \in LogIdx :
          i < j /\ Step(log[i]) > 0 /\ Step(log[j]) > 0 =>
              /\ Step(log[i]) <= Step(log[j])
              /\ Step(log[i]) = Step(log[j]) => Step(log[i]) = 4 \/ log[i].kind = "chunk"
    /\ \A j \in LogIdx :
          Step(log[j]) = 7 /\ (\E i \in LogIdx : Step(log[i]) = 4) =>
              \E i \in 1..(j - 1) : Step(log[i]) = 6 /\ log[i].ok

\* an event went through all seven steps, with two directive sends
C33_Witness ==
    /\ pc = "ok"
    /\ \A s \in 1..7 : \E i \in LogIdx : Step(log[i]) = s /\ log[i].ok
    /\ Cardinality({ i \in LogIdx : Step(log[i]) = 4 }) = 2

\* C34: if a directive send was issued while handling the event, the event
\* ends with an assistant turn persisted that records the directive outcomes,
\* also when the visible reply, a chunk or the outcome report fails to be
\* sent afterwards (the store itself accepting the turn).
C34_OutcomesPersisted ==
    ( /\ pc \in {"ok", "err"}
      /\ \E i \in LogIdx : Step(log[i]) = 4
      /\ \A i \in LogIdx : Step(log[i]) = 7 => log[i].ok )
    => \E k \in AssistantTurns :
          contains(messages[k].content, join(actions_taken, <<",", " ">>))

\* the rebuild tasks of a guild, numbered in the order they were triggered
RebuildsOf(g) == { k \in 1..Len(tasks) : tasks[k].guild = g }

\* C35: when the rebuilds of a guild's mention cache overlap, then once all
\* of them have completed the cache holds the list built by the rebuild that
\* was triggered last: an older rebuild never overwrites a newer result.
C35_NewestRebuildWins ==
    \A g \in Guilds :
        ( /\ RebuildsOf(g) # {}
          /\ \A k \in RebuildsOf(g) : tasks[k].pc = "done" )
        => LET last == CHOOSE k \in RebuildsOf(g) : \A j \in RebuildsOf(g) : j <= k
           IN  /\ g \in DOMAIN mention_cache
               /\ mention_cache[g] = tasks[last].new_replacements

\* the lists a rebuild builds when its three fetches succeed
CompleteLists ==
    { rebuilt(r, c, m) : r \in RoleFetches \ {FetchFailed},
                         c \in ChannelFetches \ {FetchFailed},
                         m \in MemberFetches \ {FetchFailed} }

\* C36: a rebuild whose role, channel or member fetch fails leaves the
\* guild's previous cache entry in place, or leaves the guild without an
\* entry: every list stored for a guild was built from three successful
\* fetches, never a partial or an empty list.
C36_NoPartialList ==
    \A g \in DOMAIN mention_cache : mention_cache[g] \in CompleteLists

\* the text holds no token and no token delimiter of its own
Tokenless(src) == \A p \in 1..Len(src) : src[p] \notin {"<", ">"}

\* C37: within one apply pass, text produced by a replacement is not matched
\* and rewritten by a later replacement: in the result of a text without
\* tokens, every token opens with the token of one entry of the list, also
\* when a cached name equals the characters after the marker inside a token.
C37_NoRematch ==
    \A app \in Applications :
        Tokenless(app.src) =>
            \A p \in 1..Len(app.out) :
                app.out[p] = "<" =>
                    \E k \in 1..Len(app.reps) : StartsWithAt(app.out, p, app.reps[k].value)

\* the toggles of a flag of the channel of guild g that were completed
Toggled(g, custom_id) ==
    { i \in LogIdx : log[i].op = "menu" /\ log[i].kind = custom_id /\ log[i].dest = g }

\* C38: toggling one channel flag inverts it and leaves the channel's other
\* two flags unchanged, also when two settings sessions toggle flags of the
\* same channel concurrently: once no toggle is in progress, every flag of a
\* channel that started with all flags off is on exactly when it was toggled
\* an odd number of times.  No toggle is lost.
C38_NoLostToggle ==
    (\A s \in 1..Len(sessions) : sessions[s].pc # "write") =>
        \A g \in Guilds, custom_id \in Toggles :
            FlagOf(channel_configs, g, custom_id) = (Cardinality(Toggled(g, custom_id)) % 2 = 1)

\* the bot tasks that are alive: spawned, not ended and not aborted
Alive == { k \in 1..Len(bots) : bots[k] = "running" }

\* the calls of start_discord_bot that returned in this step
Returned(op) ==
    { k \in 1..Len(ipc') :
        /\ ipc'[k].op = op /\ ipc'[k].pc = "done"
        /\ (k > Len(ipc) \/ ipc[k].pc # "done") }

\* what the steps of start and stop do to the bot tasks and the handle: a
\* start that returns while a handle is stored spawns nothing and reports
\* one of `results`, a stop takes the stored handle and aborts its task, and
\* a start that finds no handle spawns exactly one task and stores its handle
StartStop(results) ==
    /\ (Returned("start") # {} /\ handle # NoHandle) =>
          /\ bots' = bots /\ handle' = handle
          /\ \A k \in Returned("start") : ipc'[k].running \in results
    /\ (handle # NoHandle /\ handle' = NoHandle) =>
          /\ Len(bots') = Len(bots)
          /\ bots'[handle[1]] # "running"
          /\ \A k \in 1..Len(bots) : k # handle[1] => bots'[k] = bots[k]
    /\ Len(bots') # Len(bots) =>
          /\ handle = NoHandle
          /\ Len(bots') = Len(bots) + 1
          /\ bots'[Len(bots')] = "running"
          /\ handle' = <<Len(bots')>>

C40_StatusFollowsTask ==
    [][/\ \A k \in Returned("status") :
             (ipc'[k].running = "running") <=> (Alive # {})
       /\ \A k \in Returned("start") :
             ipc'[k].running = "running" => Alive' # {}]_vars

====
